---- MODULE Spec2Model ----
(***************************************************************************)
(* Web-Explorer (saranscript/rpai): the knowledge model (knowledge.py),    *)
(* the state matcher (state_matcher.py), the knowledge maintainer          *)
(* (knowledge_maintenance.py), the action selector (action_selector.py),   *)
(* the path finder (path_finder.py) and the exploration loop               *)
(* (exploration_policy.py), as a state machine.                            *)
(*                                                                         *)
(* Python objects are held by id: K.abstract_actions is the table of       *)
(* AbstractAction objects in dict insertion order, and a state's `actions` *)
(* mapping, an edge's payload and the navigation queue hold action ids     *)
(* that are resolved through that table (the objects are shared, never     *)
(* copied, in the source).  None is 0 for ids and NoSnapshot / NoAction    *)
(* for snapshots and concrete actions.                                     *)
(***************************************************************************)
EXTENDS Integers, Sequences, FiniteSets, TLC

VARIABLES
    K,                   \* ExplorationAgent._knowledge : AppKnowledge
    EQUIV_CACHE,         \* state_matcher._EQUIV_CACHE : (ref key, snapshot key) -> bool
    api_key,             \* openai.api_key is set: the equivalence oracle is configured
    max_depth,           \* ExplorationAgent(max_depth=...): the state budget of the run
    pc,                  \* position of explore()
    page,                \* the live browser page (a page of the world)
    state_snapshot,      \* explore(): state_snapshot
    current_abs_state_id,\* explore(): current_abs_state_id
    nav_steps,           \* explore(): nav_steps (action ids)
    next_action,         \* explore(): next_action (action id)
    concrete_action_info,\* explore(): concrete_action_info
    visited_state_ids,   \* ExplorationAgent._visited_state_ids
    steps_executed,      \* ExplorationAgent._steps_executed
    no_path_counter,     \* ExplorationAgent._no_path_counter
    state_stack,         \* ExplorationAgent._state_stack
    sig_cache,           \* ExplorationAgent._sig_cache : signature -> grouped actions
    been_in,             \* every abstract state the agent has been in (observation)
    calls,               \* the number of API calls made (knowledge-level specification)
    hist                 \* observation of the last operation (what it was given and returned)

vars == <<K, EQUIV_CACHE, api_key, max_depth, pc, page, state_snapshot,
          current_abs_state_id,
          nav_steps, next_action, concrete_action_info, visited_state_ids,
          steps_executed, no_path_counter, state_stack, sig_cache, been_in, calls, hist>>

agent_vars == <<api_key, max_depth, pc, page, state_snapshot, current_abs_state_id,
                nav_steps,
                next_action, concrete_action_info, visited_state_ids, steps_executed,
                no_path_counter, state_stack, sig_cache, been_in>>

-----------------------------------------------------------------------------
(* Bounds of the model *)

\* ExplorationAgent(max_steps=...): the step budget of the run
max_steps == 4
\* the largest state budget a run is constructed with (max_depth is in 1..MaxDepth)
MaxDepth == 2
\* the number of uuid4 values an AbstractAction can draw its action_id from
MaxActions == 5
\* the longest sequence of API calls of the knowledge-level specification
MaxCalls == 3
\* the longest sequence of calls of the path-finder specification
MaxWalk == 5
\* the longest sequence of calls of the state-matcher specification
MaxMatch == 6

\* ExplorationAgent._no_path_limit: 20 in the source, scaled to the step budget
_no_path_limit == 1

\* PathFinder(max_retry=3)
max_retry == 3
\* StateMatcher.match_state: st.concrete_states[:3]
MaxRefs == 3
\* StateMatcher._canonicalize: _extract_tags(dom, tags, limit=256), scaled to the
\* size of the structural trees
tag_limit == 2
\* ElementGrouper.extract_actions: len(actions) <= 2 and len(raw) > 5
FewGroups == 2
ManyRaw == 5

-----------------------------------------------------------------------------
(* Generic helpers *)

Range(s) == {s[i] : i \in DOMAIN s}

Min(a, b) == IF a <= b THEN a ELSE b

\* the least element of a non-empty set of integers: list.sort(key=action_id)[0]
Least(S) == CHOOSE x \in S : \A y \in S : x <= y

\* the first index of s whose element satisfies P, 0 when there is none
FirstIndex(s, P(_)) ==
    IF \E i \in DOMAIN s : P(s[i])
    THEN CHOOSE i \in DOMAIN s : P(s[i]) /\ \A j \in 1..(i - 1) : ~P(s[j])
    ELSE 0

\* Op applied to the value of v: v is computed once, whatever use Op makes of it
Bind(v, Op(_)) == CHOOSE r \in {Op(x) : x \in {v}} : TRUE

RECURSIVE InjSeqs(_, _)
\* the injective sequences of length n over S: n fresh uuid4 values, in any order
InjSeqs(S, n) ==
    IF n = 0 THEN {<<>>}
    ELSE UNION {{<<x>> \o t : t \in InjSeqs(S \ {x}, n - 1)} : x \in S}

-----------------------------------------------------------------------------
(* The world: the pages the browser can show.  A page has a DOM skeleton    *)
(* (the sequence of its tag names, as a token), a URL and the interactive   *)
(* elements page_script.js reports; `external` says that the element is a   *)
(* link whose href leaves the allowed origin.                               *)

Elem(id, act, label, xp, ext) ==
    [id |-> id, default_action |-> act, aria_label |-> label, xpath |-> xp, external |-> ext]

Pages == <<
    \* 1: the start page
    [dom |-> "d1", path |-> "/", rects |-> <<
        Elem("e1", "click", "Menu", "/a[1]", FALSE) >>],
    \* 2: a second screen; e3 carries the same label as e1 up to case and blanks
    [dom |-> "d2", path |-> "/p", rects |-> <<
        Elem("e3", "click", " menu", "/a[3]", FALSE),
        Elem("e4", "input", "", "/in", FALSE),
        Elem("e6", "click", "", "/a[6]", FALSE) >>],
    \* 3: the start page rendered again: same skeleton and route, the ids differ,
    \*    and id e1 now names a link that leaves the origin
    [dom |-> "d1", path |-> "/", rects |-> <<
        Elem("e1", "click", "Menu", "/a[9]", TRUE),
        Elem("e3", "click", " menu", "/a[3]", FALSE),
        Elem("e5", "click", "", "/a[1]", FALSE) >>],
    \* 4, 5: two further screens with one link each
    [dom |-> "d4", path |-> "/a", rects |-> <<
        Elem("e7", "click", "", "/a[7]", FALSE) >>],
    [dom |-> "d5", path |-> "/b", rects |-> <<
        Elem("e8", "click", "", "/a[8]", FALSE) >>],
    \* 6, 7, 8: three screens without interactive elements
    [dom |-> "d6", path |-> "/x", rects |-> <<>>],
    [dom |-> "d7", path |-> "/y", rects |-> <<>>],
    [dom |-> "d8", path |-> "/z", rects |-> <<>>]
>>

\* the pages of the application the agent explores
PageIds == {1, 2, 3}

\* the screens of the application the path finder is exercised on
WalkPages == {1, 4, 5}

\* the screens the state matcher is exercised on
MatchPages == {6, 7, 8}

\* the renderings page.goto(start_url) can produce
StartPages == {p \in PageIds : Pages[p].path = "/"}

\* str.strip().lower() on the labels of the world
strip_lower(s) ==
    CASE s = "Menu" -> "menu"
      [] s = " menu" -> "menu"
      [] OTHER -> s

ActionIds == 1..MaxActions

\* a Python list of element groups: obj names the object (the page whose grouping
\* created it), items is what it held when it was created.  What it holds now is
\* items followed by what update_knowledge appended to it since
ListObj(obj, items) == [obj |-> obj, items |-> items]

NoSnapshot ==
    [page |-> 0, grouped_actions |-> <<>>, page_description |-> "",
     element_groups |-> ListObj(0, <<>>)]
NoAction == [action_type |-> "", element_id |-> ""]

\* the snapshot's interactive_rects
interactive_rects(snapshot) == Pages[snapshot.page].rects

-----------------------------------------------------------------------------
(* element_grouper.py *)

\* ElementGrouper.extract_actions, step 1: one raw action per interactive element
raw_actions(p) ==
    [i \in DOMAIN Pages[p].rects |->
        LET info == Pages[p].rects[i] IN
        [action_type |-> info.default_action, element_id |-> info.id,
         function |-> info.aria_label, xpath |-> info.xpath, elements |-> <<>>]]

\* the groups the grouping oracle answers with for a page, when it answers:
\* on page 2 it puts e3 and e6 in one group and gives the group of e4 twice,
\* elsewhere it returns no group
llm_groups(p) ==
    IF p = 2
    THEN << [elements |-> <<"e3", "e6">>, function |-> "open"],
            [elements |-> <<"e4">>, function |-> "type"],
            [elements |-> <<"e4">>, function |-> "type"] >>
    ELSE <<>>

\* ElementGrouper.extract_actions: the grouped actions; llm_ok = the oracle call
\* succeeded.  On failure, or when the groups are empty or too aggressive, the
\* raw one-action-per-element list is returned
extract_actions(p, llm_ok) ==
    LET raw == raw_actions(p)
        original_type(eid) ==
            LET i == FirstIndex(raw, LAMBDA r : r.element_id = eid)
            IN IF i = 0 THEN "click" ELSE raw[i].action_type
        xpath_of(eid) ==
            LET i == FirstIndex(Pages[p].rects, LAMBDA r : r.id = eid)
            IN IF i = 0 THEN "" ELSE Pages[p].rects[i].xpath
        groups == SelectSeq(llm_groups(p), LAMBDA g : Len(g.elements) > 0)
        actions ==
            [i \in DOMAIN groups |->
                LET g == groups[i] representative_id == g.elements[1] IN
                [action_type |-> original_type(representative_id),
                 element_id |-> representative_id,
                 function |-> g.function, xpath |-> xpath_of(representative_id),
                 elements |-> g.elements]]
    IN IF ~llm_ok THEN raw
       ELSE IF Len(actions) = 0 \/ (Len(actions) <= FewGroups /\ Len(raw) > ManyRaw)
            THEN raw ELSE actions

\* ElementGrouper.extract_actions: the page description, "" when the oracle call
\* failed; the oracle describes page 2 only
page_desc(p, llm_ok) == IF llm_ok /\ p = 2 THEN "second screen" ELSE ""

\* ElementGrouper.extract_actions: the element groups as the oracle gave them, []
\* when the call failed
element_groups(p, llm_ok) == ListObj(p, IF llm_ok THEN llm_groups(p) ELSE <<>>)

-----------------------------------------------------------------------------
(* state_matcher.py *)

\* StateMatcher._canonicalize: the tag names of the DOM skeleton, joined
_canonicalize(snapshot) == Pages[snapshot.page].dom

\* StateMatcher.signature: sha256 of "<canon>|<url path>", as the pair it hashes
signature(snapshot) == <<_canonicalize(snapshot), Pages[snapshot.page].path>>

\* StateMatcher._safe_sig: the first 16 characters of the signature
_safe_sig(snapshot) == signature(snapshot)

\* variant of hash_match that finds no state
hash_match_none(Kn, snapshot) == 0

\* StateMatcher.match_state, step 1: the first state with the snapshot's signature
hash_match(Kn, snapshot) ==
    LET i == FirstIndex(Kn.abstract_states,
                        LAMBDA st : st.repr_signature = signature(snapshot))
    IN IF i = 0 THEN 0 ELSE Kn.abstract_states[i].state_id

\* the keys match_state may put to the oracle for a snapshot
oracle_keys(Kn, snapshot) ==
    {<<_safe_sig(ref), _safe_sig(snapshot)>> :
        ref \in UNION {Range(st.concrete_states) : st \in Range(Kn.abstract_states)}}

\* StateMatcher._llm_equivalent: the oracle's answer (False on a None reference);
\* `answers` is the set of keys the oracle says YES to when it is asked
_llm_equivalent(answers, snapshot_a, snapshot_b) ==
    IF snapshot_a = NoSnapshot THEN FALSE
    ELSE <<_safe_sig(snapshot_a), _safe_sig(snapshot_b)>> \in answers

\* _EQUIV_CACHE as the keys cached True and the keys cached False, with a record
\* of the oracle's work: the keys it was asked about, and those it was asked
\* about more than once
EmptyCache == [yes |-> {}, no |-> {}, asked |-> {}, again |-> {}]

\* eq = self._llm_equivalent(ref, state_snapshot): the oracle is asked about key
oracle_asked(cache, key) ==
    [cache EXCEPT !.asked = @ \cup {key},
                  !.again = IF key \in cache.asked THEN @ \cup {key} ELSE @]

\* variant of cache_put that keeps the affirmative answers only
cache_put_yes_only(cache, key, eq) ==
    IF eq THEN [cache EXCEPT !.yes = @ \cup {key}] ELSE cache

\* _EQUIV_CACHE[key] = eq
cache_put(cache, key, eq) ==
    IF eq THEN [cache EXCEPT !.yes = @ \cup {key}, !.no = @ \ {key}]
    ELSE [cache EXCEPT !.no = @ \cup {key}, !.yes = @ \ {key}]

\* variant of refs_of that takes every snapshot of the cluster
all_refs(st) == st.concrete_states

\* refs = st.concrete_states[:3]
refs_of(st) == SubSeq(st.concrete_states, 1, Min(MaxRefs, Len(st.concrete_states)))

RECURSIVE llm_match(_, _, _, _, _, _)
\* StateMatcher.match_state, step 2: the cached equivalence checks, state i, reference j
llm_match(Kn, cache, snapshot, answers, i, j) ==
    IF i > Len(Kn.abstract_states) THEN [st |-> 0, cache |-> cache]
    ELSE LET st == Kn.abstract_states[i]
             refs == refs_of(st)
         IN IF j > Len(refs) THEN llm_match(Kn, cache, snapshot, answers, i + 1, 1)
            ELSE LET key == <<_safe_sig(refs[j]), _safe_sig(snapshot)>> IN
                 IF key \in cache.yes \cup cache.no
                 THEN IF key \in cache.yes THEN [st |-> st.state_id, cache |-> cache]
                      ELSE llm_match(Kn, cache, snapshot, answers, i, j + 1)
                 ELSE LET eq == _llm_equivalent(answers, refs[j], snapshot) IN
                      IF eq THEN [st |-> st.state_id,
                                  cache |-> cache_put(oracle_asked(cache, key), key, eq)]
                      ELSE Bind(cache_put(oracle_asked(cache, key), key, eq),
                                LAMBDA c : llm_match(Kn, c, snapshot, answers, i, j + 1))

\* StateMatcher.match_state: [st: the matched state id or 0, cache: the cache after]
match_state(Kn, cache, key_set, snapshot, answers) ==
    LET h == hash_match(Kn, snapshot) IN
    IF h # 0 THEN [st |-> h, cache |-> cache]
    ELSE IF ~key_set THEN [st |-> 0, cache |-> cache]
    ELSE llm_match(Kn, cache, snapshot, answers, 1, 1)

\* the answers the oracle can give: the keys, among those not cached yet, it says YES to
Answers(Kn, cache, key_set, snapshot) ==
    IF key_set /\ hash_match(Kn, snapshot) = 0
    THEN SUBSET (oracle_keys(Kn, snapshot) \ (cache.yes \cup cache.no))
    ELSE {{}}

-----------------------------------------------------------------------------
(* knowledge.py *)

\* AppKnowledge(): the empty knowledge.  appended_groups is not a field of
\* AppKnowledge: it lists, in order, the groups update_knowledge appended to the
\* lists of element groups reachable from K, as [list, item]
EmptyKnowledge ==
    [raw_trace |-> <<>>, abstract_states |-> <<>>, abstract_actions |-> <<>>,
     aig |-> [nodes |-> {}, edges |-> <<>>], unexplored_action_ids |-> {},
     appended_groups |-> <<>>]

\* what the list of element groups l holds now
groups_in(Kn, l) ==
    l.items \o [i \in 1..Len(SelectSeq(Kn.appended_groups, LAMBDA x : x.list = l)) |->
                   SelectSeq(Kn.appended_groups, LAMBDA x : x.list = l)[i].item]

\* the position of an action id in K.abstract_actions (0: not registered)
ActionIndex(Kn, aid) == FirstIndex(Kn.abstract_actions, LAMBDA a : a.action_id = aid)

\* the AbstractAction object with this id
ActionOf(Kn, aid) == Kn.abstract_actions[ActionIndex(Kn, aid)]

\* AbstractInteractionGraph.add_state
add_state(g, state_id) == [g EXCEPT !.nodes = @ \cup {state_id}]

\* variant of add_edge in which a key that exists between the two nodes is added
\* once more
add_edge_append(Kn, src, aid, dst) ==
    [Kn EXCEPT !.aig = [add_state(add_state(Kn.aig, src), dst)
                           EXCEPT !.edges = Append(@, <<src, dst, aid>>)],
               !.abstract_actions[ActionIndex(Kn, aid)].source_abs_state = src,
               !.abstract_actions[ActionIndex(Kn, aid)].target_abs_state = dst]

\* AbstractInteractionGraph.add_edge: both nodes, the keyed edge (an existing key
\* between the two nodes keeps its place), and the action's back-pointers
add_edge(Kn, src, aid, dst) ==
    LET g1 == add_state(add_state(Kn.aig, src), dst)
        e == <<src, dst, aid>>
        g2 == IF e \in Range(g1.edges) THEN g1 ELSE [g1 EXCEPT !.edges = Append(@, e)]
        i == ActionIndex(Kn, aid)
    IN [Kn EXCEPT !.aig = g2,
                  !.abstract_actions[i].source_abs_state = src,
                  !.abstract_actions[i].target_abs_state = dst]

\* nx.MultiDiGraph.remove_edge(u, v, key) inside try/except: no edge, no change
remove_edge(Kn, u, v, k) ==
    [Kn EXCEPT !.aig.edges = SelectSeq(@, LAMBDA e : e # <<u, v, k>>)]

\* variant of get_or_create_state that does not add the new state to the AIG
get_or_create_unlinked(Kn, state_signature) ==
    LET i == FirstIndex(Kn.abstract_states, LAMBDA st : st.repr_signature = state_signature)
    IN IF i # 0 THEN [K |-> Kn, st |-> Kn.abstract_states[i].state_id]
       ELSE [K |-> [Kn EXCEPT !.abstract_states =
                       Append(@, [state_id |-> Len(Kn.abstract_states) + 1,
                                  repr_signature |-> state_signature,
                                  concrete_states |-> <<>>, actions |-> {},
                                  page_description |-> "",
                                  element_groups |-> ListObj(0, <<>>)])],
             st |-> Len(Kn.abstract_states) + 1]

\* AppKnowledge.get_or_create_state: [K, st]
get_or_create_state(Kn, state_signature) ==
    LET i == FirstIndex(Kn.abstract_states, LAMBDA st : st.repr_signature = state_signature)
    IN IF i # 0 THEN [K |-> Kn, st |-> Kn.abstract_states[i].state_id]
       ELSE LET new_state == [state_id |-> Len(Kn.abstract_states) + 1,
                              repr_signature |-> state_signature,
                              concrete_states |-> <<>>, actions |-> {},
                              page_description |-> "",
                              element_groups |-> ListObj(0, <<>>)]
            IN [K |-> [Kn EXCEPT !.abstract_states = Append(@, new_state),
                                 !.aig = add_state(@, new_state.state_id)],
                st |-> new_state.state_id]

\* AppKnowledge.add_raw_trace_item
add_raw_trace_item(Kn, start_state, action, end_state) ==
    [Kn EXCEPT !.raw_trace =
        Append(@, [start_state |-> start_state, action |-> action, end_state |-> end_state])]

\* AppKnowledge.register_action
register_action(Kn, action) ==
    LET i == ActionIndex(Kn, action.action_id)
        K1 == IF i = 0 THEN [Kn EXCEPT !.abstract_actions = Append(@, action)]
              ELSE [Kn EXCEPT !.abstract_actions[i] = action]
    IN IF action.exploration_flag = "unexplored"
       THEN [K1 EXCEPT !.unexplored_action_ids = @ \cup {action.action_id}]
       ELSE K1

\* variant of the index update in which an id never leaves the index
reindex_no_discard(K1, prev_flag, aid, new_flag) ==
    IF prev_flag # "unexplored" /\ new_flag = "unexplored"
    THEN [K1 EXCEPT !.unexplored_action_ids = @ \cup {aid}]
    ELSE K1

\* AppKnowledge.update_action_flag, the index update: the id leaves the index when
\* the flag stops being unexplored and enters it when the flag becomes unexplored
reindex(K1, prev_flag, aid, new_flag) ==
    IF prev_flag = "unexplored" /\ new_flag # "unexplored"
    THEN [K1 EXCEPT !.unexplored_action_ids = @ \ {aid}]
    ELSE IF prev_flag # "unexplored" /\ new_flag = "unexplored"
    THEN [K1 EXCEPT !.unexplored_action_ids = @ \cup {aid}]
    ELSE K1

\* AppKnowledge.update_action_flag on the action at position i of the table
set_flag(Kn, i, aid, new_flag) ==
    reindex([Kn EXCEPT !.abstract_actions[i].exploration_flag = new_flag],
            Kn.abstract_actions[i].exploration_flag, aid, new_flag)

\* variant of update_action_flag that writes the flag and leaves the index alone
update_action_flag_field_only(Kn, aid, new_flag) ==
    [Kn EXCEPT !.abstract_actions[ActionIndex(Kn, aid)].exploration_flag = new_flag]

\* AppKnowledge.update_action_flag
update_action_flag(Kn, aid, new_flag) == set_flag(Kn, ActionIndex(Kn, aid), aid, new_flag)

-----------------------------------------------------------------------------
(* knowledge_maintenance.py *)

HasElement(a, elem_id) == \E j \in DOMAIN a.actual_elements : a.actual_elements[j].node_id = elem_id

HasLocator(a, xp) == \E j \in DOMAIN a.actual_elements : a.actual_elements[j].description = xp

UIElement(node_id, description) == [node_id |-> node_id, description |-> description]

\* a.actual_elements.append(UIElement(...)) on the i-th action of the table
merge_element(Kn, i, elem) ==
    [Kn EXCEPT !.abstract_actions[i].actual_elements = Append(@, elem)]

RECURSIVE matches_from(_, _, _)
\* KnowledgeMaintainer._action_matches_existing, from the i-th action on:
\* [matched, K]; a match by function description or by locator merges the element
matches_from(Kn, concrete_action, i) ==
    IF i > Len(Kn.abstract_actions) THEN [matched |-> FALSE, K |-> Kn]
    ELSE IF Kn.abstract_actions[i].action_type # concrete_action.action_type
    THEN matches_from(Kn, concrete_action, i + 1)
    ELSE IF HasElement(Kn.abstract_actions[i], concrete_action.element_id)
    THEN [matched |-> TRUE, K |-> Kn]
    ELSE IF strip_lower(concrete_action.function) # ""
            /\ strip_lower(Kn.abstract_actions[i].function_desc)
                   = strip_lower(concrete_action.function)
    THEN [matched |-> TRUE,
          K |-> merge_element(Kn, i, UIElement(concrete_action.element_id, ""))]
    ELSE IF concrete_action.xpath # ""
            /\ HasLocator(Kn.abstract_actions[i], concrete_action.xpath)
    THEN [matched |-> TRUE,
          K |-> merge_element(Kn, i, UIElement(concrete_action.element_id,
                                               concrete_action.xpath))]
    ELSE matches_from(Kn, concrete_action, i + 1)

\* variant of _action_matches_existing that recognises no existing action
matches_nothing(Kn, concrete_action) == [matched |-> FALSE, K |-> Kn]

\* KnowledgeMaintainer._action_matches_existing
_action_matches_existing(Kn, concrete_action) == matches_from(Kn, concrete_action, 1)

\* concrete_action.get("elements", [])[1:] as UIElements without locator
rest_elements(elements) ==
    [j \in 1..(IF Len(elements) > 1 THEN Len(elements) - 1 ELSE 0) |->
        UIElement(elements[j + 1], "")]

\* KnowledgeMaintainer._create_abstract_action, with the uuid4 the action draws
_create_abstract_action(concrete_action, uuid) ==
    [action_id |-> uuid,
     action_type |-> concrete_action.action_type,
     actual_elements |->
         <<UIElement(concrete_action.element_id, concrete_action.xpath)>>
         \o rest_elements(concrete_action.elements),
     exploration_flag |-> "unexplored",
     function_desc |-> concrete_action.function,
     source_abs_state |-> 0,
     target_abs_state |-> 0]

\* KnowledgeMaintainer._match_abstract_action: the id of the first action of the
\* concrete action's type that holds its element id, 0 for None
_match_abstract_action(Kn, concrete_action) ==
    IF \E i \in DOMAIN Kn.abstract_actions :
           /\ Kn.abstract_actions[i].action_type = concrete_action.action_type
           /\ HasElement(Kn.abstract_actions[i], concrete_action.element_id)
    THEN Kn.abstract_actions[
             FirstIndex(Kn.abstract_actions,
                        LAMBDA a : a.action_type = concrete_action.action_type
                                   /\ HasElement(a, concrete_action.element_id))].action_id
    ELSE 0

\* new_abs_state.concrete_states.append(new_state_snapshot)
append_snapshot(r, new_state_snapshot) ==
    [K |-> [r.K EXCEPT !.abstract_states[r.st].concrete_states =
                           Append(@, new_state_snapshot)],
     st |-> r.st]

\* update_knowledge, step 2, state created: the description of the snapshot and
\* its list of element groups, the list object itself
seed_state(r, new_state_snapshot) ==
    [K |-> [r.K EXCEPT
               !.abstract_states[r.st].page_description = new_state_snapshot.page_description,
               !.abstract_states[r.st].element_groups = new_state_snapshot.element_groups],
     st |-> r.st]

RECURSIVE append_unseen(_, _, _, _, _)
\* for g in egroups: if json.dumps(g) not in seen_str: element_groups.append(g),
\* from the i-th group on; seen_str is computed once, before the loop
append_unseen(Kn, l, egroups, seen, i) ==
    IF i > Len(egroups) THEN Kn
    ELSE append_unseen(IF egroups[i] \in seen THEN Kn
                       ELSE [Kn EXCEPT !.appended_groups =
                                Append(@, [list |-> l, item |-> egroups[i]])],
                       l, egroups, seen, i + 1)

\* update_knowledge, step 2, state found: the description is filled in when it is
\* empty and the groups of the snapshot the state has not are appended to its list
fill_state(r, new_state_snapshot) ==
    [K |-> append_unseen(
               [r.K EXCEPT !.abstract_states[r.st].page_description =
                    IF @ = "" THEN new_state_snapshot.page_description ELSE @],
               r.K.abstract_states[r.st].element_groups,
               groups_in(r.K, new_state_snapshot.element_groups),
               Range(groups_in(r.K, r.K.abstract_states[r.st].element_groups)), 1),
     st |-> r.st]

\* update_knowledge, step 2: the snapshot joins the cluster of the matched state,
\* or of a new state when match_state returned None: [K, st]
merge_state(Kn, matched, new_state_snapshot) ==
    IF matched = 0
    THEN Bind(get_or_create_state(Kn, signature(new_state_snapshot)),
              LAMBDA r : seed_state(append_snapshot(r, new_state_snapshot),
                                    new_state_snapshot))
    ELSE fill_state(append_snapshot([K |-> Kn, st |-> matched], new_state_snapshot),
                    new_state_snapshot)

\* abs_action.exploration_flag = ExplorationFlag.UNEXPLORED, written to the field
write_flag(Kn, aid, flag) ==
    [Kn EXCEPT !.abstract_actions[ActionIndex(Kn, aid)].exploration_flag = flag]

\* variant of the attachment that leaves the state's actions as they are
attach_nowhere(Kn, state_id, aid) == Kn

\* new_abs_state.actions[abs_action.action_id] = abs_action
attach_action(Kn, state_id, aid) ==
    [Kn EXCEPT !.abstract_states[state_id].actions = @ \cup {aid}]

\* update_knowledge, step 3, for a candidate that matches no action
register_candidate(Kn, abs_action, new_abs_state) ==
    Bind(attach_action(register_action(Kn, abs_action), new_abs_state,
                       abs_action.action_id),
         LAMBDA K1 : write_flag(K1, abs_action.action_id, "unexplored"))

RECURSIVE process_actions(_, _, _, _, _)
RECURSIVE process_match(_, _, _, _, _)
\* update_knowledge, step 3: the candidates from the i-th on; a candidate that
\* matches no action is registered under the new state with the next uuid
process_actions(Kn, candidate_ui_actions, i, new_abs_state, uuids) ==
    IF i > Len(candidate_ui_actions) THEN Kn
    ELSE Bind(_action_matches_existing(Kn, candidate_ui_actions[i]),
              LAMBDA m : process_match(m, candidate_ui_actions, i, new_abs_state, uuids))

\* the i-th candidate, given the result m of _action_matches_existing
process_match(m, candidate_ui_actions, i, new_abs_state, uuids) ==
    IF m.matched
    THEN process_actions(m.K, candidate_ui_actions, i + 1, new_abs_state, uuids)
    ELSE Bind(register_candidate(
                  m.K,
                  [_create_abstract_action(candidate_ui_actions[i], Head(uuids))
                      EXCEPT !.source_abs_state = new_abs_state],
                  new_abs_state),
              LAMBDA K1 : process_actions(K1, candidate_ui_actions, i + 1, new_abs_state,
                                          Tail(uuids)))

\* update_knowledge, step 4: the edge of the executed action, by its flag
update_edge(K2, prev_abs_state, matched_abs_action, new_abs_state) ==
    IF ActionOf(K2, matched_abs_action).exploration_flag # "ineffective"
    THEN add_edge(K2, prev_abs_state, matched_abs_action, new_abs_state)
    ELSE remove_edge(K2, prev_abs_state, new_abs_state, matched_abs_action)

\* variant of step 4 without the override: the executed action is flagged explored
flag_explored_only(Kn, prev_abs_state, matched_abs_action, new_abs_state) ==
    update_action_flag(Kn, matched_abs_action, "explored")

\* variant of step 4 that flags the executed action unexplored
flag_unexplored(Kn, prev_abs_state, matched_abs_action, new_abs_state) ==
    update_action_flag(Kn, matched_abs_action, "unexplored")

\* update_knowledge, step 4: explored, overridden by ineffective when the state
\* did not change
flag_executed(Kn, prev_abs_state, matched_abs_action, new_abs_state) ==
    IF prev_abs_state = new_abs_state
    THEN Bind(update_action_flag(Kn, matched_abs_action, "explored"),
              LAMBDA K1 : update_action_flag(K1, matched_abs_action, "ineffective"))
    ELSE update_action_flag(Kn, matched_abs_action, "explored")

\* update_knowledge, step 4, once the executed action is looked up
update_matched(Kn, prev_abs_state, matched_abs_action, new_abs_state) ==
    IF matched_abs_action = 0 THEN Kn
    ELSE Bind(flag_executed(Kn, prev_abs_state, matched_abs_action, new_abs_state),
              LAMBDA K2 : update_edge(K2, prev_abs_state, matched_abs_action, new_abs_state))

\* variant of step 4 that looks the executed action up by its type alone
update_prev_action_by_type(Kn, prev_abs_state, prev_action_concrete, new_abs_state) ==
    IF prev_abs_state = 0 THEN Kn
    ELSE Bind(FirstIndex(Kn.abstract_actions,
                         LAMBDA a : a.action_type = prev_action_concrete.action_type),
              LAMBDA i : update_matched(Kn, prev_abs_state,
                                        IF i = 0 THEN 0 ELSE Kn.abstract_actions[i].action_id,
                                        new_abs_state))

\* update_knowledge, step 4, once the previous state is resolved
update_prev_action(Kn, prev_abs_state, prev_action_concrete, new_abs_state) ==
    IF prev_abs_state = 0 THEN Kn
    ELSE Bind(_match_abstract_action(Kn, prev_action_concrete),
              LAMBDA matched_abs_action :
                  update_matched(Kn, prev_abs_state, matched_abs_action, new_abs_state))

\* the candidate actions of a snapshot: the grouped actions attached to it
candidates_of(snapshot) == snapshot.grouped_actions

\* update_knowledge, step 3 on the state r.st of step 2: [K, cache, st]
step3(r, cache, new_state_snapshot, uuids) ==
    [K |-> process_actions(r.K, candidates_of(new_state_snapshot), 1, r.st, uuids),
     cache |-> cache, st |-> r.st]

\* update_knowledge, steps 2 and 3 given the result m of match_state
step2(K1, m, new_state_snapshot, uuids) ==
    Bind(merge_state(K1, m.st, new_state_snapshot),
         LAMBDA r : step3(r, m.cache, new_state_snapshot, uuids))

\* update_knowledge, steps 2 and 3 on the knowledge K1 of step 1
match_new(K1, cache, key_set, new_state_snapshot, answers, uuids) ==
    Bind(match_state(K1, cache, key_set, new_state_snapshot, answers),
         LAMBDA m : step2(K1, m, new_state_snapshot, uuids))

\* KnowledgeMaintainer.update_knowledge up to step 3: [K, cache, st] given the
\* oracle's answers for the new snapshot and the uuids of the new actions
update_new_state(Kn, cache, key_set, prev_state_snapshot, prev_action_concrete, new_state_snapshot, answers, uuids) ==
    Bind(add_raw_trace_item(Kn, prev_state_snapshot, prev_action_concrete,
                            new_state_snapshot),
         LAMBDA K1 : match_new(K1, cache, key_set, new_state_snapshot, answers, uuids))

\* update_knowledge, step 4 given the result m of match_state on the previous
\* snapshot: [K, cache, new_abs_state, prev_abs_state, matched]
step4(u, m, prev_action_concrete) ==
    [K |-> update_prev_action(u.K, m.st, prev_action_concrete, u.st),
     cache |-> m.cache, new_abs_state |-> u.st, prev_abs_state |-> m.st,
     matched |-> IF m.st = 0 THEN 0 ELSE _match_abstract_action(u.K, prev_action_concrete)]

\* update_knowledge from step 4 on, u being the result of the steps before
update_prev(u, key_set, prev_state_snapshot, prev_action_concrete, answers2) ==
    IF prev_state_snapshot # NoSnapshot /\ prev_action_concrete # NoAction
    THEN Bind(match_state(u.K, u.cache, key_set, prev_state_snapshot, answers2),
              LAMBDA m : step4(u, m, prev_action_concrete))
    ELSE [K |-> u.K, cache |-> u.cache, new_abs_state |-> u.st, prev_abs_state |-> 0,
          matched |-> 0]

\* KnowledgeMaintainer.update_knowledge: [K, cache, new_abs_state, prev_abs_state,
\* matched]; answers2 are the oracle's answers for the previous snapshot
update_knowledge(Kn, cache, key_set, prev_state_snapshot, prev_action_concrete, new_state_snapshot, answers, uuids, answers2) ==
    Bind(update_new_state(Kn, cache, key_set, prev_state_snapshot,
                          prev_action_concrete, new_state_snapshot, answers, uuids),
         LAMBDA u : update_prev(u, key_set, prev_state_snapshot, prev_action_concrete,
                                answers2))

-----------------------------------------------------------------------------
(* action_selector.py *)

UnexploredOf(Kn, aids) ==
    {aid \in aids : \E a \in Range(Kn.abstract_actions) :
                        a.action_id = aid /\ a.exploration_flag = "unexplored"}

\* the unexplored actions of the current state, when it is a known state
local_candidates(Kn, state_id) ==
    IF state_id # 0 /\ state_id \in 1..Len(Kn.abstract_states)
    THEN UnexploredOf(Kn, Kn.abstract_states[state_id].actions)
    ELSE {}

\* variant of the selector without the global fallback
no_global_candidates(Kn) == {}

\* the unexplored actions of K.abstract_actions
global_candidates(Kn) ==
    {a.action_id : a \in {b \in Range(Kn.abstract_actions) :
                              b.exploration_flag = "unexplored"}}

\* variant of the selector that sorts by descending id
last_sorted(candidates) ==
    IF candidates = {} THEN 0 ELSE CHOOSE x \in candidates : \A y \in candidates : x >= y

\* candidates.sort(key=action_id); candidates[0], 0 for an empty list
first_sorted(candidates) == IF candidates = {} THEN 0 ELSE Least(candidates)

\* ActionSelector.select_action: the action id, 0 for None
select_action(Kn, state_id) ==
    IF local_candidates(Kn, state_id) # {}
    THEN first_sorted(local_candidates(Kn, state_id))
    ELSE first_sorted(global_candidates(Kn))

-----------------------------------------------------------------------------
(* knowledge.py: AbstractInteractionGraph.shortest_path; path_finder.py *)

EdgeSet(g) == Range(g.edges)

\* the neighbours of u: its successors, and its predecessors too in the undirected view
Neighbours(g, directed, u) ==
    {e[2] : e \in {x \in EdgeSet(g) : x[1] = u}}
    \cup (IF directed THEN {} ELSE {e[1] : e \in {x \in EdgeSet(g) : x[2] = u}})

RECURSIVE simple_paths(_, _, _, _)
\* variant of bfs_paths that gives every simple path to t, not only the shortest
simple_paths(g, directed, frontier, t) ==
    IF frontier = {} THEN {}
    ELSE {q \in frontier : q[Len(q)] = t}
         \cup simple_paths(g, directed,
                           UNION {{Append(q, v) : v \in Neighbours(g, directed, q[Len(q)]) \ Range(q)}
                                  : q \in {q \in frontier : q[Len(q)] # t}},
                           t)

RECURSIVE bfs_paths(_, _, _, _)
\* nx.shortest_path: the node paths of least length from the frontier's start to t
\* ({} when there is none); which of several shortest paths networkx returns is
\* left open
bfs_paths(g, directed, frontier, t) ==
    LET hits == {q \in frontier : q[Len(q)] = t} IN
    IF hits # {} THEN hits
    ELSE IF frontier = {} THEN {}
    ELSE Bind(UNION {{Append(q, v) : v \in Neighbours(g, directed, q[Len(q)]) \ Range(q)}
                     : q \in frontier},
              LAMBDA next : bfs_paths(g, directed, next, t))

\* the first key of the multi-edge u -> v in insertion order, 0 when there is no edge
first_key(g, u, v) ==
    LET i == FirstIndex(g.edges, LAMBDA e : e[1] = u /\ e[2] = v)
    IN IF i = 0 THEN 0 ELSE g.edges[i][3]

RECURSIVE hop_actions(_, _, _, _)
\* one action per hop of a node path; the undirected search also takes an edge
\* against its direction, and a hop without edge data is skipped
hop_actions(g, directed, path_nodes, i) ==
    IF i >= Len(path_nodes) THEN <<>>
    ELSE LET fwd == first_key(g, path_nodes[i], path_nodes[i + 1])
             k == IF fwd # 0 \/ directed THEN fwd
                  ELSE first_key(g, path_nodes[i + 1], path_nodes[i])
         IN (IF k = 0 THEN <<>> ELSE <<k>>) \o hop_actions(g, directed, path_nodes, i + 1)

\* variant of node_not_found that takes a node without incident edge for missing
node_not_linked(g, src, dst) ==
    \E n \in {src, dst} : \A e \in Range(g.edges) : e[1] # n /\ e[2] # n

\* nx.shortest_path raises NodeNotFound, which no handler of shortest_path catches
node_not_found(g, src, dst) == src \notin g.nodes \/ dst \notin g.nodes

\* the action lists of the node paths ps ({<<>>} when there is no path)
path_actions(g, directed, ps) ==
    IF ps = {} THEN {<<>>} ELSE {hop_actions(g, directed, q, 1) : q \in ps}

\* AbstractInteractionGraph.shortest_path: the action lists it can return
\* ({<<>>} on NetworkXNoPath and when src = dst)
shortest_path(g, src, dst) ==
    Bind(bfs_paths(g, TRUE, {<<src>>}, dst), LAMBDA ps : path_actions(g, TRUE, ps))

\* PathFinder._bfs_any_path: every exception gives []
_bfs_any_path(Kn, src, dst) ==
    IF node_not_found(Kn.aig, src, dst) THEN {<<>>}
    ELSE Bind(bfs_paths(Kn.aig, FALSE, {<<src>>}, dst),
              LAMBDA ps : path_actions(Kn.aig, FALSE, ps))

\* variant of _prune_ineffective_edges that removes nothing
prune_nothing(Kn) == Kn

\* variant of _prune_ineffective_edges that removes one ineffective edge per call
prune_first(Kn) ==
    Bind(FirstIndex(Kn.aig.edges,
                    LAMBDA e : ActionOf(Kn, e[3]).exploration_flag = "ineffective"),
         LAMBDA i : IF i = 0 THEN Kn
                    ELSE [Kn EXCEPT !.aig.edges =
                             SubSeq(@, 1, i - 1) \o SubSeq(@, i + 1, Len(@))])

\* PathFinder._prune_ineffective_edges
_prune_ineffective_edges(Kn) ==
    [Kn EXCEPT !.aig.edges =
        SelectSeq(@, LAMBDA e : ActionOf(Kn, e[3]).exploration_flag # "ineffective")]

\* a result of find_path: [raised, path, K, attempts: the passes of the loop begun]
found(Kn, paths, attempts) ==
    {[raised |-> FALSE, path |-> q, K |-> Kn, attempts |-> attempts] : q \in paths}

RECURSIVE find_path_from(_, _, _, _)
RECURSIVE try_pruned(_, _, _, _)
RECURSIVE try_any(_, _, _, _, _)
RECURSIVE try_direct(_, _, _, _, _)
\* PathFinder.find_path, attempts attempt..max_retry-1: the results [raised, path, K]
find_path_from(Kn, current_state, target_state, attempt) ==
    IF attempt >= max_retry THEN found(Kn, {<<>>}, attempt)
    ELSE IF node_not_found(Kn.aig, current_state, target_state)
    THEN {[raised |-> TRUE, path |-> <<>>, K |-> Kn, attempts |-> attempt + 1]}
    ELSE Bind(shortest_path(Kn.aig, current_state, target_state),
              LAMBDA path : try_direct(Kn, current_state, target_state, attempt, path))

\* find_path, one attempt, given the result of K.aig.shortest_path
try_direct(Kn, current_state, target_state, attempt, paths) ==
    IF paths # {<<>>} THEN found(Kn, paths, attempt + 1)
    ELSE Bind(_prune_ineffective_edges(Kn),
              LAMBDA K1 : try_pruned(K1, current_state, target_state, attempt))

\* find_path, one attempt, after the ineffective edges are pruned
try_pruned(K1, current_state, target_state, attempt) ==
    Bind(_bfs_any_path(K1, current_state, target_state),
         LAMBDA bfs_path : try_any(K1, current_state, target_state, attempt, bfs_path))

\* find_path, one attempt, given the result of _bfs_any_path
try_any(K1, current_state, target_state, attempt, bfs_path) ==
    IF bfs_path # {<<>>} THEN found(K1, bfs_path, attempt + 1)
    ELSE find_path_from(K1, current_state, target_state, attempt + 1)

\* PathFinder.find_path
find_path(Kn, current_state, target_action) ==
    IF ActionOf(Kn, target_action).source_abs_state = 0 THEN found(Kn, {<<>>}, 0)
    ELSE find_path_from(Kn, current_state,
                        ActionOf(Kn, target_action).source_abs_state, 0)

\* variant of path_to_state that finds no route
path_to_none(Kn, src_state, dst_state) == {[raised |-> FALSE, path |-> <<>>]}

\* PathFinder.path_to_state: [raised, path]
path_to_state(Kn, src_state, dst_state) ==
    IF src_state = dst_state THEN {[raised |-> FALSE, path |-> <<>>]}
    ELSE IF node_not_found(Kn.aig, src_state, dst_state)
    THEN {[raised |-> TRUE, path |-> <<>>]}
    ELSE {[raised |-> FALSE, path |-> q] : q \in shortest_path(Kn.aig, src_state, dst_state)}

-----------------------------------------------------------------------------
(* exploration_policy.py: the helpers of ExplorationAgent *)

\* PlaywrightController.get_interactive_rects: the elements of the live page,
\* each with its id, default action, label and locator
get_interactive_rects(p) == Pages[p].rects

\* ExplorationAgent._would_navigate_external: the element is on the page and its
\* href leaves the origin (False when the element is missing or on any error)
_would_navigate_external(p, element_id) ==
    \E i \in DOMAIN get_interactive_rects(p) :
        /\ get_interactive_rects(p)[i].id = element_id
        /\ get_interactive_rects(p)[i].external

\* variant of refresh_id that reports the element found and keeps the stale id
refresh_nothing(Kn, rects, ai, j, r) ==
    [ok |-> Kn.abstract_actions[ai].actual_elements[j].description # "" /\ r # 0, K |-> Kn]

\* _is_action_available: the element's locator is looked up among the rects, and
\* the id of the rect found, if any, replaces the stale id: [ok, K]
refresh_id(Kn, rects, ai, j, r) ==
    IF Kn.abstract_actions[ai].actual_elements[j].description # "" /\ r # 0
    THEN [ok |-> TRUE,
          K |-> [Kn EXCEPT !.abstract_actions[ai].actual_elements[j].node_id = rects[r].id]]
    ELSE [ok |-> FALSE, K |-> Kn]

\* _is_action_available on the element elem, the j-th of the ai-th action
locate(Kn, rects, ai, j, elem) ==
    IF \E i \in DOMAIN rects : rects[i].id = elem.node_id THEN [ok |-> TRUE, K |-> Kn]
    ELSE refresh_id(Kn, rects, ai, j,
                    FirstIndex(rects, LAMBDA info : info.xpath = elem.description))

\* ExplorationAgent._is_action_available on the j-th element of an action: [ok, K]
element_available(Kn, p, aid, j) ==
    locate(Kn, get_interactive_rects(p), ActionIndex(Kn, aid), j,
           ActionOf(Kn, aid).actual_elements[j])

\* ExplorationAgent._is_action_available
_is_action_available(Kn, p, aid) ==
    IF Len(ActionOf(Kn, aid).actual_elements) = 0 THEN [ok |-> FALSE, K |-> Kn]
    ELSE element_available(Kn, p, aid, 1)

\* the sig_cache entry of a signature ({} when there is none)
Cached(cache, sig) == {c \in cache : c.sig = sig}

\* _get_state_snapshot, once the grouped actions are known: [snapshot, sig_cache]
snapshot_of(p, cache, sig, g) ==
    [snapshot |-> [page |-> p, grouped_actions |-> g.grouped_actions,
                   page_description |-> g.page_desc, element_groups |-> g.element_groups],
     sig_cache |-> IF Cached(cache, sig) # {} THEN cache
                   ELSE cache \cup {[sig |-> sig, grouped_actions |-> g.grouped_actions,
                                     page_desc |-> g.page_desc,
                                     element_groups |-> g.element_groups]}]

\* ExplorationAgent._get_state_snapshot: [snapshot, sig_cache]; the grouped actions
\* come from the cache entry of the page's signature, else from the grouper
_get_state_snapshot(p, cache, llm_ok) ==
    Bind(IF Cached(cache, signature([page |-> p])) # {}
         THEN CHOOSE c \in Cached(cache, signature([page |-> p])) : TRUE
         ELSE [grouped_actions |-> extract_actions(p, llm_ok),
               page_desc |-> page_desc(p, llm_ok),
               element_groups |-> element_groups(p, llm_ok)],
         LAMBDA g : snapshot_of(p, cache, signature([page |-> p]), g))

\* the outcomes of the grouping oracle that matter for a page: none when cached
LlmOutcomes(p, cache) ==
    IF Cached(cache, signature([page |-> p])) # {} THEN {FALSE} ELSE BOOLEAN

\* variant of _should_continue that stops one step late
_should_continue_late(Kn, steps, visited) ==
    IF Kn.unexplored_action_ids = {} THEN FALSE
    ELSE IF steps > max_steps THEN FALSE
    ELSE IF Cardinality(visited) > max_depth THEN FALSE
    ELSE TRUE

\* ExplorationAgent._should_continue
_should_continue(Kn, steps, visited) ==
    IF Kn.unexplored_action_ids = {} THEN FALSE
    ELSE IF steps >= max_steps THEN FALSE
    ELSE IF Cardinality(visited) > max_depth THEN FALSE
    ELSE TRUE

\* any(a.exploration_flag == UNEXPLORED for a in state.actions.values())
HasUnexplored(Kn, state_id) == UnexploredOf(Kn, Kn.abstract_states[state_id].actions) # {}

RECURSIVE prefilter(_, _, _)
RECURSIVE prefilter_step(_, _, _, _)
\* explore(): select_action and the pre-filter loop that flags external links
\* ineffective and selects again: [K, next_action]
prefilter(Kn, p, state_id) ==
    Bind(select_action(Kn, state_id), LAMBDA na : prefilter_step(Kn, p, state_id, na))

\* the pre-filter loop on the action the selector returned
prefilter_step(Kn, p, state_id, na) ==
    IF na # 0 /\ Len(ActionOf(Kn, na).actual_elements) > 0
       /\ _would_navigate_external(p, ActionOf(Kn, na).actual_elements[1].node_id)
    THEN Bind(update_action_flag(Kn, na, "ineffective"),
              LAMBDA K1 : prefilter(K1, p, state_id))
    ELSE [K |-> Kn, next_action |-> na]

RECURSIVE next_group_element(_, _, _, _, _)
RECURSIVE try_element(_, _, _, _, _, _)
\* _execute_action: the first element of the group, other than the external one,
\* that is available on the page: [found (its index, 0 for none), K]
next_group_element(Kn, p, aid, elem_id, j) ==
    IF j > Len(ActionOf(Kn, aid).actual_elements) THEN [found |-> 0, K |-> Kn]
    ELSE IF ActionOf(Kn, aid).actual_elements[j].node_id = elem_id
    THEN next_group_element(Kn, p, aid, elem_id, j + 1)
    ELSE Bind(element_available(Kn, p, aid, j),
              LAMBDA av : try_element(Kn, p, aid, elem_id, j, av))

\* the j-th element of the group, given the result av of _is_action_available
try_element(Kn, p, aid, elem_id, j, av) ==
    IF av.ok THEN [found |-> j, K |-> av.K]
    ELSE next_group_element(Kn, p, aid, elem_id, j + 1)

RECURSIVE backtrack(_, _, _, _)
\* explore(), back-tracking: pop the stack until a state with unexplored actions
\* is found to which path_to_state gives a route: the results [raised, stack, nav]
backtrack(Kn, current_state, stack, nav) ==
    IF stack = <<>> THEN {[raised |-> FALSE, stack |-> stack, nav |-> nav]}
    ELSE LET target_state_id == stack[Len(stack)]
             rest == SubSeq(stack, 1, Len(stack) - 1)
         IN IF target_state_id \in 1..Len(Kn.abstract_states)
               /\ HasUnexplored(Kn, target_state_id)
            THEN UNION {IF r.raised THEN {[raised |-> TRUE, stack |-> rest, nav |-> nav]}
                        ELSE IF r.path # <<>>
                        THEN {[raised |-> FALSE, stack |-> rest, nav |-> r.path]}
                        ELSE backtrack(Kn, current_state, rest, <<>>)
                        : r \in path_to_state(Kn, current_state, target_state_id)}
            ELSE backtrack(Kn, current_state, rest, nav)

FreeIds(Kn) == ActionIds \ {a.action_id : a \in Range(Kn.abstract_actions)}

\* the number of actions update_knowledge registers for a new snapshot
NewActionCount(Kn, cache, key_set, new_state_snapshot, answers) ==
    Len(update_new_state(Kn, cache, key_set, NoSnapshot, NoAction, new_state_snapshot,
                         answers,
                         [j \in 1..Len(new_state_snapshot.grouped_actions) |-> 0 - j])
            .K.abstract_actions)
    - Len(Kn.abstract_actions)

\* the uuid4 values update_knowledge can draw for a new snapshot
Uuids(Kn, cache, key_set, new_state_snapshot, answers) ==
    InjSeqs(FreeIds(Kn), NewActionCount(Kn, cache, key_set, new_state_snapshot, answers))

\* the answers the oracle can give in step 4 of update_knowledge
Answers2(u, key_set, prev_state_snapshot, prev_action_concrete) ==
    IF prev_state_snapshot # NoSnapshot /\ prev_action_concrete # NoAction
    THEN Answers(u.K, u.cache, key_set, prev_state_snapshot)
    ELSE {{}}

Hist(op, arg, ret, prev, new) ==
    [op |-> op, arg |-> arg, ret |-> ret, prev_abs_state |-> prev, new_abs_state |-> new]

-----------------------------------------------------------------------------
(* The state after ExplorationAgent.__init__ *)

Init ==
    /\ K = EmptyKnowledge
    /\ EQUIV_CACHE = EmptyCache
    /\ api_key \in BOOLEAN
    /\ max_depth \in 1..MaxDepth
    /\ pc = "start"
    /\ page = 0
    /\ state_snapshot = NoSnapshot
    /\ current_abs_state_id = 0
    /\ nav_steps = <<>>
    /\ next_action = 0
    /\ concrete_action_info = NoAction
    /\ visited_state_ids = {}
    /\ steps_executed = 0
    /\ no_path_counter = 0
    /\ state_stack = <<>>
    /\ sig_cache = {}
    /\ been_in = {}
    /\ calls = 0
    /\ hist = Hist("init", 0, 0, 0, 0)

\* an unhandled exception leaves explore()
Raise(error) ==
    /\ pc' = "crashed"
    /\ hist' = Hist("raise", error, 0, 0, 0)

\* _get_matching_abs_state_id after the knowledge update r, m being the result of
\* match_state; the progress trackers are updated when the step is counted
Matched(r, m, prev_action_concrete, counted) ==
    /\ K' = r.K
    /\ EQUIV_CACHE' = m.cache
    /\ IF m.st = 0
       THEN /\ Raise("AssertionError")
            /\ UNCHANGED <<current_abs_state_id, visited_state_ids, steps_executed, been_in>>
       ELSE /\ pc' = IF counted THEN "post" ELSE "loop"
            /\ current_abs_state_id' = m.st
            /\ been_in' = been_in \cup {m.st}
            /\ visited_state_ids' =
                   IF counted THEN visited_state_ids \cup {m.st} ELSE visited_state_ids
            /\ steps_executed' = IF counted THEN steps_executed + 1 ELSE steps_executed
            /\ hist' = Hist("update_knowledge", prev_action_concrete, r.matched,
                            r.prev_abs_state, r.new_abs_state)

\* the knowledge update of explore(), then _get_matching_abs_state_id: the
\* snapshot of the live page is taken, ingested, and matched again
Ingest(p, prev_state_snapshot, prev_action_concrete, counted) ==
    \E llm_ok \in LlmOutcomes(p, sig_cache) :
    \E s \in {_get_state_snapshot(p, sig_cache, llm_ok)} :
    \E answers \in Answers(K, EQUIV_CACHE, api_key, s.snapshot) :
    \E uuids \in Uuids(K, EQUIV_CACHE, api_key, s.snapshot, answers) :
    \E u \in {update_new_state(K, EQUIV_CACHE, api_key, prev_state_snapshot,
                               prev_action_concrete, s.snapshot, answers, uuids)} :
    \E answers2 \in Answers2(u, api_key, prev_state_snapshot, prev_action_concrete) :
    \E r \in {update_knowledge(K, EQUIV_CACHE, api_key, prev_state_snapshot,
                               prev_action_concrete, s.snapshot, answers, uuids, answers2)} :
    \E answers3 \in Answers(r.K, r.cache, api_key, s.snapshot) :
    \E m \in {match_state(r.K, r.cache, api_key, s.snapshot, answers3)} :
        /\ sig_cache' = s.sig_cache
        /\ state_snapshot' = s.snapshot
        /\ Matched(r, m, prev_action_concrete, counted)

\* explore(): the start page is loaded, observed and ingested
Bootstrap ==
    /\ pc = "start"
    /\ \E p \in StartPages :
        /\ page' = p
        /\ Ingest(p, NoSnapshot, NoAction, FALSE)
    /\ UNCHANGED <<api_key, max_depth, nav_steps, next_action, concrete_action_info,
                   no_path_counter, state_stack, calls>>

\* explore(): while self._should_continue()
LoopHead ==
    /\ pc = "loop"
    /\ pc' = IF _should_continue(K, steps_executed, visited_state_ids) THEN "select" ELSE "done"
    /\ hist' = Hist("loop", 0, 0, 0, 0)
    /\ UNCHANGED <<K, EQUIV_CACHE, api_key, max_depth, page, state_snapshot,
                   current_abs_state_id, nav_steps, next_action, concrete_action_info, visited_state_ids,
                   steps_executed, no_path_counter, state_stack, sig_cache, been_in, calls>>

\* explore(): the action is not on the page; the state is pushed for back-tracking
\* and the path finder is asked for a route to the action's source state
Navigate(Kn, target_action) ==
    /\ state_stack' = IF HasUnexplored(Kn, current_abs_state_id)
                         /\ current_abs_state_id \notin Range(state_stack)
                      THEN Append(state_stack, current_abs_state_id)
                      ELSE state_stack
    /\ \E r \in find_path(Kn, current_abs_state_id, target_action) :
         IF r.raised
         THEN /\ Raise("NodeNotFound")
              /\ K' = r.K
              /\ UNCHANGED <<nav_steps, next_action, no_path_counter>>
         ELSE IF r.path = <<>>
         THEN /\ K' = update_action_flag(r.K, target_action, "ineffective")
              /\ next_action' = target_action
              /\ nav_steps' = <<>>
              /\ no_path_counter' = no_path_counter + 1
              /\ pc' = "loop"
              /\ hist' = Hist("no_path", current_abs_state_id, target_action, 0, 0)
         ELSE /\ K' = r.K
              /\ next_action' = Head(r.path)
              /\ nav_steps' = Tail(r.path)
              /\ pc' = "execute"
              /\ hist' = Hist("find_path", target_action, r.path, 0, 0)
              /\ UNCHANGED no_path_counter

\* explore(): the selector's action after the pre-filter, f = [K, next_action]
Selected(f) ==
    IF f.next_action = 0
    THEN /\ K' = f.K
         /\ next_action' = 0
         /\ pc' = "done"
         /\ hist' = Hist("select_action", current_abs_state_id, 0, 0, 0)
         /\ UNCHANGED <<nav_steps, no_path_counter, state_stack>>
    ELSE \E av \in {_is_action_available(f.K, page, f.next_action)} :
         IF av.ok
         THEN /\ K' = av.K
              /\ next_action' = f.next_action
              /\ no_path_counter' = 0
              /\ pc' = "execute"
              /\ hist' = Hist("select_action", current_abs_state_id, f.next_action, 0, 0)
              /\ UNCHANGED <<nav_steps, state_stack>>
         ELSE Navigate(av.K, f.next_action)

\* explore(), "1. Determine next action": a queued navigation step, else the
\* selector, the availability check and the path finder
DetermineNext ==
    /\ pc = "select"
    /\ UNCHANGED <<EQUIV_CACHE, api_key, max_depth, page, state_snapshot,
                   current_abs_state_id,
                   concrete_action_info, visited_state_ids, steps_executed, sig_cache,
                   been_in, calls>>
    /\ IF nav_steps # <<>>
       THEN /\ next_action' = Head(nav_steps)
            /\ nav_steps' = Tail(nav_steps)
            /\ pc' = "execute"
            /\ hist' = Hist("nav_step", Head(nav_steps), 0, 0, 0)
            /\ UNCHANGED <<K, no_path_counter, state_stack>>
       ELSE \E f \in {prefilter(K, page, current_abs_state_id)} : Selected(f)

\* the pages page.go_back can show after an action left the origin, and the
\* start page that is loaded when going back fails
RevertPages(p) == {q \in PageIds : Pages[q].path = Pages[p].path} \cup StartPages

\* _execute_action returns action_result; outcome is the branch it returned from
Returned(Kn, action_result, outcome) ==
    /\ K' = Kn
    /\ concrete_action_info' = action_result
    /\ pc' = "observe"
    /\ hist' = Hist("_execute_action", next_action, action_result, outcome, 0)

\* AbstractAction(action_type, exploration_flag=UNEXPLORED, actual_elements=[element],
\* function_desc): the action _execute_action creates for the next element of a group
next_elem_action(action, element, uuid) ==
    [action_id |-> uuid,
     action_type |-> action.action_type,
     actual_elements |-> <<element>>,
     exploration_flag |-> "unexplored",
     function_desc |-> action.function_desc,
     source_abs_state |-> 0,
     target_abs_state |-> 0]

\* _execute_action on an external link: the action is flagged ineffective (K1);
\* for a group, the next available element is registered as a new action, and
\* the state lookup that follows uses a name _execute_action does not define
SkipExternal(K1, action, action_result) ==
    /\ page' = page
    /\ \E g \in {IF Len(action.actual_elements) > 1
                 THEN next_group_element(K1, page, next_action, action_result.element_id, 1)
                 ELSE [found |-> 0, K |-> K1]} :
         IF g.found = 0 THEN Returned(g.K, action_result, "external_link")
         ELSE /\ \E uuid \in FreeIds(K) :
                   K' = register_action(
                            g.K,
                            next_elem_action(action,
                                ActionOf(g.K, next_action).actual_elements[g.found], uuid))
              /\ Raise("NameError")
              /\ UNCHANGED concrete_action_info

\* _execute_action past the external-link check; av is the result of the
\* availability check (made for clicks only)
Perform(av, action_result) ==
    IF ~av.ok
    THEN /\ page' = page
         /\ Returned(update_action_flag(av.K, next_action, "ineffective"), action_result,
                     "not_present")
    ELSE \* the browser acts; the page it shows afterwards is the application's
         \* choice; when it is outside the origin the action is flagged ineffective
         \* and the browser goes back, or to the start page
         \/ /\ page' \in PageIds
            /\ Returned(av.K, action_result, "performed")
         \/ /\ page' \in RevertPages(page)
            /\ Returned(update_action_flag(av.K, next_action, "ineffective"), action_result,
                        "left_origin")

\* _execute_action on an action that has elements
Execute(action, action_result) ==
    IF action.action_type = "click"
       /\ _would_navigate_external(page, action_result.element_id)
    THEN SkipExternal(update_action_flag(K, next_action, "ineffective"), action, action_result)
    ELSE \E av \in {IF action.action_type = "click"
                    THEN _is_action_available(K, page, next_action)
                    ELSE [ok |-> TRUE, K |-> K]} :
            Perform(av, action_result)

\* explore(), "2. Execute action": ExplorationAgent._execute_action
ExecuteAction ==
    /\ pc = "execute"
    /\ UNCHANGED <<EQUIV_CACHE, api_key, max_depth, state_snapshot,
                   current_abs_state_id, nav_steps,
                   next_action, visited_state_ids, steps_executed, no_path_counter,
                   state_stack, sig_cache, been_in, calls>>
    /\ \E action \in {ActionOf(K, next_action)} :
       IF Len(action.actual_elements) = 0
       THEN /\ Raise("RuntimeError")
            /\ UNCHANGED <<K, page, concrete_action_info>>
       ELSE Execute(action, [action_type |-> action.action_type,
                             element_id |-> action.actual_elements[1].node_id])

\* explore(), "3. Observe new state & update knowledge", and the progress trackers
Observe ==
    /\ pc = "observe"
    /\ Ingest(page, state_snapshot, concrete_action_info, TRUE)
    /\ UNCHANGED <<api_key, max_depth, page, nav_steps, next_action, concrete_action_info,
                   no_path_counter, state_stack, calls>>

\* explore(), back-tracking: when the current state st has no unexplored action
\* left, the stack is popped for a state to return to
BackTracking(Kn, path, st, restart) ==
    \E b \in (IF HasUnexplored(Kn, st)
              THEN {[raised |-> FALSE, stack |-> state_stack, nav |-> path]}
              ELSE backtrack(Kn, st, state_stack, path)) :
        /\ state_stack' = b.stack
        /\ nav_steps' = b.nav
        /\ IF b.raised THEN Raise("NodeNotFound")
           ELSE /\ pc' = "loop"
                /\ hist' = Hist("post", restart, b.nav, 0, 0)

\* explore(): restart from the start URL after too many no-path situations
Restart(Kn, path, counter) ==
    \E p \in StartPages :
    \E llm_ok \in LlmOutcomes(p, sig_cache) :
    \E s \in {_get_state_snapshot(p, sig_cache, llm_ok)} :
    \E answers \in Answers(Kn, EQUIV_CACHE, api_key, s.snapshot) :
    \E m \in {match_state(Kn, EQUIV_CACHE, api_key, s.snapshot, answers)} :
        /\ page' = p
        /\ sig_cache' = s.sig_cache
        /\ state_snapshot' = s.snapshot
        /\ EQUIV_CACHE' = m.cache
        /\ IF m.st = 0
           THEN /\ Raise("AssertionError")
                /\ nav_steps' = path
                /\ no_path_counter' = counter
                /\ UNCHANGED <<current_abs_state_id, state_stack, been_in>>
           ELSE /\ current_abs_state_id' = m.st
                /\ been_in' = been_in \cup {m.st}
                /\ no_path_counter' = 0
                /\ BackTracking(Kn, path, m.st, TRUE)

\* explore(), after the navigation path r.path is settled
AfterStep(r, counter) ==
    /\ K' = r.K
    /\ IF counter >= _no_path_limit
       THEN Restart(r.K, r.path, counter)
       ELSE /\ no_path_counter' = counter
            /\ UNCHANGED <<EQUIV_CACHE, page, state_snapshot, current_abs_state_id,
                           sig_cache, been_in>>
            /\ BackTracking(r.K, r.path, current_abs_state_id, FALSE)

\* explore(): the navigation path is recomputed when the state reached is not
\* the source state of the next navigation step
Recompute(recompute) ==
    \E r \in (IF recompute
              THEN find_path(K, current_abs_state_id, nav_steps[Len(nav_steps)])
              ELSE {[raised |-> FALSE, path |-> nav_steps, K |-> K, attempts |-> 0]}) :
        IF r.raised
        THEN /\ Raise("NodeNotFound")
             /\ K' = r.K
             /\ UNCHANGED <<EQUIV_CACHE, page, state_snapshot, current_abs_state_id,
                            nav_steps, no_path_counter, state_stack, sig_cache, been_in>>
        ELSE AfterStep(r, IF recompute /\ r.path = <<>>
                          THEN no_path_counter + 1 ELSE no_path_counter)

\* explore(), after the step: the navigation path is recomputed when the state
\* reached is not the expected one, the application is restarted after too many
\* navigation failures, and a finished state makes the agent back-track
PostStep ==
    /\ pc = "post"
    /\ UNCHANGED <<api_key, max_depth, next_action, concrete_action_info, visited_state_ids,
                   steps_executed, calls>>
    /\ Recompute(/\ nav_steps # <<>>
                 /\ ActionOf(K, Head(nav_steps)).source_abs_state # current_abs_state_id)

Next ==
    \/ Bootstrap
    \/ LoopHead
    \/ DetermineNext
    \/ ExecuteAction
    \/ Observe
    \/ PostStep

\* the exploration loop of ExplorationAgent.explore()
Spec == Init /\ [][Next]_vars

-----------------------------------------------------------------------------
(* The knowledge level: a client calls the operations of AppKnowledge, of the  *)
(* KnowledgeMaintainer, of the ActionSelector and of the PathFinder directly,  *)
(* in any order, on snapshots of the pages of the world.                       *)

\* the snapshots a client can pass: a page with the grouped actions attached
Snapshots ==
    {_get_state_snapshot(p, {}, llm_ok).snapshot : p \in PageIds, llm_ok \in BOOLEAN}

\* the concrete actions that can be executed on the page of a snapshot
ConcreteActions(snapshot) ==
    IF snapshot = NoSnapshot THEN {NoAction}
    ELSE {[action_type |-> interactive_rects(snapshot)[i].default_action,
           element_id |-> interactive_rects(snapshot)[i].id]
          : i \in DOMAIN interactive_rects(snapshot)}

\* the order of MultiDiGraph.edges(keys=True) among the edges es of one source node:
\* target by target in the order the targets were first linked, keys in insertion order
RECURSIVE by_target(_)
by_target(es) ==
    IF es = <<>> THEN <<>>
    ELSE SelectSeq(es, LAMBDA e : e[2] = es[1][2])
         \o by_target(SelectSeq(es, LAMBDA e : e[2] # es[1][2]))

\* AbstractInteractionGraph.to_networkx().edges(keys=True), from node u on: the
\* triples (u, v, k) node by node, the nodes in the order the states were created
RECURSIVE edges_keys(_, _, _)
edges_keys(g, u, n) ==
    IF u > n THEN <<>>
    ELSE by_target(SelectSeq(g.edges, LAMBDA e : e[1] = u)) \o edges_keys(g, u + 1, n)

\* to_json, the entry of one abstract state
state_meta(Kn, st) ==
    [state_id |-> st.state_id, repr_signature |-> st.repr_signature, actions |-> st.actions,
     page_desc |-> st.page_description, element_groups |-> groups_in(Kn, st.element_groups)]

\* json.dumps of a snapshot: its list of element groups is written as it is now
dumped(Kn, snapshot) ==
    [snapshot EXCEPT !.element_groups.items = groups_in(Kn, snapshot.element_groups)]

\* json.loads of a dumped snapshot: its list of element groups is a new object
loaded(snapshot) ==
    [snapshot EXCEPT !.element_groups.obj = IF @ > 0 THEN 0 - (@ + Len(Pages)) ELSE @]

\* to_json, the entry of one abstract action (null is 0)
action_meta(a) ==
    [action_id |-> a.action_id, action_type |-> a.action_type, flag |-> a.exploration_flag,
     src |-> a.source_abs_state, dst |-> a.target_abs_state,
     elements |-> [j \in DOMAIN a.actual_elements |-> a.actual_elements[j].node_id],
     function |-> a.function_desc]

\* AppKnowledge.to_json: the document written to disk
to_json(Kn) ==
    [abstract_states |-> [i \in DOMAIN Kn.abstract_states |-> state_meta(Kn, Kn.abstract_states[i])],
     abstract_actions |-> [i \in DOMAIN Kn.abstract_actions |-> action_meta(Kn.abstract_actions[i])],
     edges |-> edges_keys(Kn.aig, 1, Len(Kn.abstract_states)),
     unexplored |-> Kn.unexplored_action_ids,
     raw_trace |-> [i \in DOMAIN Kn.raw_trace |->
                       [start_state |-> dumped(Kn, Kn.raw_trace[i].start_state),
                        action |-> Kn.raw_trace[i].action,
                        end_state |-> dumped(Kn, Kn.raw_trace[i].end_state)]]]

\* from_json, "rebuild states": the state of one entry, without snapshots or actions
json_state(meta) ==
    [state_id |-> meta.state_id, repr_signature |-> meta.repr_signature,
     concrete_states |-> <<>>, actions |-> {},
     page_description |-> meta.page_desc,
     element_groups |-> ListObj(0 - meta.state_id, meta.element_groups)]

\* variant of json_action that leaves the flag of a rebuilt action at its default
json_action_default_flag(meta) ==
    [action_id |-> meta.action_id, action_type |-> meta.action_type,
     actual_elements |-> [j \in DOMAIN meta.elements |-> UIElement(meta.elements[j], "")],
     exploration_flag |-> "unexplored", function_desc |-> meta.function,
     source_abs_state |-> 0, target_abs_state |-> 0]

\* from_json, "rebuild actions": the action of one entry; the elements come back
\* with an empty description, src and dst are not read
json_action(meta) ==
    [action_id |-> meta.action_id, action_type |-> meta.action_type,
     actual_elements |-> [j \in DOMAIN meta.elements |-> UIElement(meta.elements[j], "")],
     exploration_flag |-> meta.flag, function_desc |-> meta.function,
     source_abs_state |-> 0, target_abs_state |-> 0]

\* from_json, "link states & actions, rebuild edges", from edge i of the document on
RECURSIVE link_edges(_, _, _)
link_edges(Kn, edges, i) ==
    IF i > Len(edges) THEN Kn
    ELSE Bind(add_edge([Kn EXCEPT !.abstract_states[edges[i][1]].actions = @ \cup {edges[i][3]}],
                       edges[i][1], edges[i][3], edges[i][2]),
              LAMBDA K1 : link_edges(K1, edges, i + 1))

\* AppKnowledge.from_json
from_json(data) ==
    [link_edges([EmptyKnowledge EXCEPT
                    !.abstract_states =
                        [i \in DOMAIN data.abstract_states |-> json_state(data.abstract_states[i])],
                    !.abstract_actions =
                        [i \in DOMAIN data.abstract_actions |-> json_action(data.abstract_actions[i])]],
                data.edges, 1)
     EXCEPT !.unexplored_action_ids = data.unexplored,
            !.raw_trace = [i \in DOMAIN data.raw_trace |->
                              [start_state |-> loaded(data.raw_trace[i].start_state),
                               action |-> data.raw_trace[i].action,
                               end_state |-> loaded(data.raw_trace[i].end_state)]]]

\* the snapshots a client has observed: those it passed as new_state_snapshot
Observed(Kn) == {Kn.raw_trace[i].end_state : i \in DOMAIN Kn.raw_trace}

ExplorationFlag == {"unexplored", "explored", "ineffective"}

InitK ==
    /\ K = EmptyKnowledge
    /\ EQUIV_CACHE = EmptyCache
    /\ api_key \in BOOLEAN
    /\ max_depth = MaxDepth
    /\ pc = "api"
    /\ page = 0
    /\ state_snapshot = NoSnapshot
    /\ current_abs_state_id = 0
    /\ nav_steps = <<>>
    /\ next_action = 0
    /\ concrete_action_info = NoAction
    /\ visited_state_ids = {}
    /\ steps_executed = 0
    /\ no_path_counter = 0
    /\ state_stack = <<>>
    /\ sig_cache = {}
    /\ been_in = {}
    /\ calls = 0
    /\ hist = Hist("init", 0, 0, 0, 0)

\* KnowledgeMaintainer.update_knowledge(K, prev_state_snapshot, prev_action_concrete,
\* new_state_snapshot)
CallUpdateKnowledge ==
    /\ pc = "api"
    /\ calls < MaxCalls
    /\ calls' = calls + 1
    /\ \E prev_state_snapshot \in Observed(K) \cup {NoSnapshot} :
       \E prev_action_concrete \in ConcreteActions(prev_state_snapshot) :
       \E new_state_snapshot \in Snapshots :
       \E answers \in Answers(K, EQUIV_CACHE, api_key, new_state_snapshot) :
       \E uuids \in Uuids(K, EQUIV_CACHE, api_key, new_state_snapshot, answers) :
       \E u \in {update_new_state(K, EQUIV_CACHE, api_key, prev_state_snapshot,
                                  prev_action_concrete, new_state_snapshot, answers, uuids)} :
       \E answers2 \in Answers2(u, api_key, prev_state_snapshot, prev_action_concrete) :
       \E r \in {update_knowledge(K, EQUIV_CACHE, api_key, prev_state_snapshot,
                                  prev_action_concrete, new_state_snapshot, answers, uuids,
                                  answers2)} :
           /\ K' = r.K
           /\ EQUIV_CACHE' = r.cache
           /\ hist' = Hist("update_knowledge", prev_action_concrete, r.matched,
                           r.prev_abs_state, r.new_abs_state)
    /\ UNCHANGED agent_vars

\* AppKnowledge.update_action_flag(action, new_flag) on a registered action
CallUpdateActionFlag ==
    /\ pc = "api"
    /\ calls < MaxCalls
    /\ calls' = calls + 1
    /\ \E a \in Range(K.abstract_actions) : \E new_flag \in ExplorationFlag :
           /\ K' = update_action_flag(K, a.action_id, new_flag)
           /\ hist' = Hist("update_action_flag", a.action_id, new_flag, 0, 0)
    /\ UNCHANGED <<EQUIV_CACHE, agent_vars>>

\* AppKnowledge.register_action(action) on a new action, whatever its flag
CallRegisterAction ==
    /\ pc = "api"
    /\ calls < MaxCalls
    /\ calls' = calls + 1
    /\ \E uuid \in FreeIds(K) : \E flag \in ExplorationFlag :
           /\ K' = register_action(K, [_create_abstract_action(
                                           [action_type |-> "click", element_id |-> "e1",
                                            function |-> "", xpath |-> "", elements |-> <<>>],
                                           uuid)
                                       EXCEPT !.exploration_flag = flag])
           /\ hist' = Hist("register_action", uuid, flag, 0, 0)
    /\ UNCHANGED <<EQUIV_CACHE, agent_vars>>

\* ActionSelector.select_action(K, current_state_id); 0 is None, and
\* Len(K.abstract_states) + 1 is an id K does not know
CallSelectAction ==
    /\ pc = "api"
    /\ calls < MaxCalls
    /\ calls' = calls + 1
    /\ \E current_state_id \in 0..(Len(K.abstract_states) + 1) :
           hist' = Hist("select_action", current_state_id,
                        select_action(K, current_state_id), 0, 0)
    /\ UNCHANGED <<K, EQUIV_CACHE, agent_vars>>

\* PathFinder.find_path(K, current_state, target_action) on a known state and a
\* registered action; a NodeNotFound it raises reaches the client and K is kept
CallFindPath ==
    /\ pc = "api"
    /\ calls < MaxCalls
    /\ calls' = calls + 1
    /\ \E current_state \in 1..Len(K.abstract_states) :
       \E a \in Range(K.abstract_actions) :
       \E r \in find_path(K, current_state, a.action_id) :
           /\ K' = r.K
           /\ hist' = Hist("find_path", a.action_id, r.path, current_state, r.raised)
    /\ UNCHANGED <<EQUIV_CACHE, agent_vars>>

\* AppKnowledge.from_json(K.to_json()): the knowledge a client loads from what K
\* saves; K itself is kept
CallFromJson ==
    /\ pc = "api"
    /\ calls < MaxCalls
    /\ calls' = calls + 1
    /\ hist' = Hist("from_json", 0, from_json(to_json(K)), 0, 0)
    /\ UNCHANGED <<K, EQUIV_CACHE, agent_vars>>

NextK ==
    \/ CallFromJson
    \/ CallUpdateKnowledge
    \/ CallUpdateActionFlag
    \/ CallRegisterAction
    \/ CallSelectAction
    \/ CallFindPath

\* the operations of the knowledge model, called in any order
SpecK == InitK /\ [][NextK]_vars

\* the knowledge after sequences of update_knowledge calls only
NextU == CallUpdateKnowledge

SpecU == InitK /\ [][NextU]_vars

\* explore(), one pass of the loop on the knowledge as it is, without oracle: the
\* page shown is the one observed last, no navigation step is queued, the
\* selector's action is not external and is on the page, the browser performs
\* it on its first element and stays in the origin, and the page then shown is
\* fed to update_knowledge
LoopIteration ==
    /\ pc = "api"
    /\ calls <= MaxCalls
    /\ calls' = calls + 1
    /\ K.raw_trace # <<>>
    /\ \E state_snapshot_ \in {K.raw_trace[Len(K.raw_trace)].end_state} :
       \E current \in {match_state(K, EQUIV_CACHE, api_key, state_snapshot_, {}).st} :
       \E next_action_ \in {select_action(K, current)} :
          /\ current # 0
          /\ next_action_ # 0
          /\ ~_would_navigate_external(state_snapshot_.page,
                 ActionOf(K, next_action_).actual_elements[1].node_id)
          /\ \E av \in {_is_action_available(K, state_snapshot_.page, next_action_)} :
             \E info \in {[action_type |-> ActionOf(K, next_action_).action_type,
                           element_id |-> ActionOf(K, next_action_).actual_elements[1].node_id]} :
             \E new_state_snapshot \in Snapshots :
             \E uuids \in Uuids(av.K, EQUIV_CACHE, api_key, new_state_snapshot, {}) :
             \E r \in {update_knowledge(av.K, EQUIV_CACHE, api_key, state_snapshot_, info,
                                        new_state_snapshot, {}, uuids, {})} :
                 /\ av.ok
                 /\ K' = r.K
                 /\ EQUIV_CACHE' = r.cache
                 /\ hist' = Hist("explore", next_action_, info, r.prev_abs_state,
                                 r.new_abs_state)
    /\ UNCHANGED agent_vars

InitE == InitK /\ ~api_key

NextE ==
    \/ CallUpdateKnowledge
    \/ LoopIteration

\* the exploration loop on the knowledge built by update_knowledge calls
SpecE == InitE /\ [][NextE]_vars

-----------------------------------------------------------------------------
(* The path-finder level: a client without OpenAI key records transitions     *)
(* between the screens WalkPages, flags actions ineffective as the            *)
(* orchestrator does, and asks the PathFinder for paths.                      *)

\* the snapshots of the screens, with the raw one-action-per-element lists
WalkSnapshots == {_get_state_snapshot(p, {}, FALSE).snapshot : p \in WalkPages}

InitP ==
    /\ K = EmptyKnowledge
    /\ EQUIV_CACHE = EmptyCache
    /\ api_key = FALSE
    /\ max_depth = MaxDepth
    /\ pc = "walk"
    /\ page = 0
    /\ state_snapshot = NoSnapshot
    /\ current_abs_state_id = 0
    /\ nav_steps = <<>>
    /\ next_action = 0
    /\ concrete_action_info = NoAction
    /\ visited_state_ids = {}
    /\ steps_executed = 0
    /\ no_path_counter = 0
    /\ state_stack = <<>>
    /\ sig_cache = {}
    /\ been_in = {}
    /\ calls = 0
    /\ hist = Hist("init", 0, 0, 0, 0)

\* KnowledgeMaintainer.update_knowledge on a transition between two screens: an
\* element of a screen seen before is acted on and a screen is shown
WalkUpdateKnowledge ==
    /\ pc = "walk"
    /\ calls < MaxWalk
    /\ calls' = calls + 1
    /\ \E prev_state_snapshot \in Observed(K) \cup {NoSnapshot} :
       \E prev_action_concrete \in ConcreteActions(prev_state_snapshot) :
       \E new_state_snapshot \in WalkSnapshots :
       \E uuids \in Uuids(K, EQUIV_CACHE, FALSE, new_state_snapshot, {}) :
       \E r \in {update_knowledge(K, EQUIV_CACHE, FALSE, prev_state_snapshot,
                                  prev_action_concrete, new_state_snapshot, {}, uuids, {})} :
           /\ K' = r.K
           /\ EQUIV_CACHE' = r.cache
           /\ hist' = Hist("update_knowledge", prev_action_concrete, r.matched,
                           r.prev_abs_state, r.new_abs_state)
    /\ UNCHANGED agent_vars

\* AppKnowledge.update_action_flag(action, INEFFECTIVE), the one flag the
\* orchestrator sets itself
WalkUpdateActionFlag ==
    /\ pc = "walk"
    /\ calls < MaxWalk
    /\ calls' = calls + 1
    /\ \E a \in Range(K.abstract_actions) :
           /\ K' = update_action_flag(K, a.action_id, "ineffective")
           /\ hist' = Hist("update_action_flag", a.action_id, "ineffective", 0, 0)
    /\ UNCHANGED <<EQUIV_CACHE, agent_vars>>

\* PathFinder.find_path(K, current_state, target_action) on a known state and a
\* registered action; the result is recorded with the knowledge before the call
WalkFindPath ==
    /\ pc = "walk"
    /\ calls < MaxWalk
    /\ calls' = calls + 1
    /\ \E current_state \in 1..Len(K.abstract_states) :
       \E a \in Range(K.abstract_actions) :
       \E r \in find_path(K, current_state, a.action_id) :
           /\ K' = r.K
           /\ hist' = Hist("find_path", a.action_id, [result |-> r, before |-> K],
                           current_state, 0)
    /\ UNCHANGED <<EQUIV_CACHE, agent_vars>>

\* PathFinder(max_retry=retry).find_path, for retry <= max_retry: a pass of the
\* loop does not read the attempt number, so the retry passes of that finder are
\* the last retry passes of the loop
find_path_retry(Kn, current_state, target_action, retry) ==
    IF ActionOf(Kn, target_action).source_abs_state = 0 THEN found(Kn, {<<>>}, 0)
    ELSE find_path_from(Kn, current_state,
                        ActionOf(Kn, target_action).source_abs_state, max_retry - retry)

NextP ==
    \/ WalkUpdateKnowledge
    \/ WalkUpdateActionFlag
    \/ WalkFindPath

SpecP == InitP /\ [][NextP]_vars

\* the stacks _state_stack can hold: a state is pushed only when it is not on the
\* stack, so its entries are distinct states
Stacks(Kn) ==
    UNION {InjSeqs(1..Len(Kn.abstract_states), n) : n \in 0..Len(Kn.abstract_states)}

\* explore(), back-tracking after a step that ends in current_state, with the
\* stack the agent holds and no navigation step left; the call is the last one,
\* recorded with its inputs
WalkBackTrack ==
    /\ pc = "walk"
    /\ calls < MaxWalk
    /\ calls' = calls + 1
    /\ \E current_state \in 1..Len(K.abstract_states) :
       \E stack \in Stacks(K) :
       \E b \in (IF HasUnexplored(K, current_state)
                 THEN {[raised |-> FALSE, stack |-> stack, nav |-> <<>>]}
                 ELSE backtrack(K, current_state, stack, <<>>)) :
           /\ current_abs_state_id' = current_state
           /\ state_stack' = b.stack
           /\ nav_steps' = b.nav
           /\ pc' = IF b.raised THEN "raised" ELSE "done"
           /\ hist' = Hist("back_tracking", stack, b, current_state, 0)
    /\ UNCHANGED <<K, EQUIV_CACHE, api_key, max_depth, page, state_snapshot, next_action,
                   concrete_action_info, visited_state_ids, steps_executed,
                   no_path_counter, sig_cache, been_in>>

NextB ==
    \/ WalkUpdateKnowledge
    \/ WalkUpdateActionFlag
    \/ WalkBackTrack

\* the back-tracking of explore() on the knowledge of the path-finder level
SpecB == InitP /\ [][NextB]_vars

-----------------------------------------------------------------------------
(* The state-matcher level: a client with an OpenAI key observes the screens   *)
(* MatchPages in any order, each observation ingested by update_knowledge, and *)
(* asks the StateMatcher about snapshots.                                      *)

\* the snapshots of the screens
MatchSnapshots == {_get_state_snapshot(p, {}, FALSE).snapshot : p \in MatchPages}

InitM ==
    /\ K = EmptyKnowledge
    /\ EQUIV_CACHE = EmptyCache
    /\ api_key = TRUE
    /\ max_depth = MaxDepth
    /\ pc = "match"
    /\ page = 0
    /\ state_snapshot = NoSnapshot
    /\ current_abs_state_id = 0
    /\ nav_steps = <<>>
    /\ next_action = 0
    /\ concrete_action_info = NoAction
    /\ visited_state_ids = {}
    /\ steps_executed = 0
    /\ no_path_counter = 0
    /\ state_stack = <<>>
    /\ sig_cache = {}
    /\ been_in = {}
    /\ calls = 0
    /\ hist = Hist("init", 0, 0, 0, 0)

\* KnowledgeMaintainer.update_knowledge(K, None, None, snapshot): the snapshot is
\* resolved by match_state and joins the cluster of its state
MatchUpdateKnowledge ==
    /\ pc = "match"
    /\ calls < MaxMatch
    /\ calls' = calls + 1
    /\ \E new_state_snapshot \in MatchSnapshots :
       \E answers \in Answers(K, EQUIV_CACHE, api_key, new_state_snapshot) :
       \E uuids \in Uuids(K, EQUIV_CACHE, api_key, new_state_snapshot, answers) :
       \E r \in {update_knowledge(K, EQUIV_CACHE, api_key, NoSnapshot, NoAction,
                                  new_state_snapshot, answers, uuids, {})} :
           /\ K' = r.K
           /\ EQUIV_CACHE' = r.cache
           /\ hist' = Hist("update_knowledge", new_state_snapshot, r.new_abs_state,
                           EQUIV_CACHE, 0)
    /\ UNCHANGED agent_vars

\* StateMatcher().match_state(K, snapshot); the cache before the call is recorded
MatchState ==
    /\ pc = "match"
    /\ calls < MaxMatch
    /\ calls' = calls + 1
    /\ \E snapshot \in MatchSnapshots :
       \E answers \in Answers(K, EQUIV_CACHE, api_key, snapshot) :
       \E m \in {match_state(K, EQUIV_CACHE, api_key, snapshot, answers)} :
           /\ EQUIV_CACHE' = m.cache
           /\ hist' = Hist("match_state", snapshot, m.st, EQUIV_CACHE, 0)
    /\ UNCHANGED <<K, agent_vars>>

NextM ==
    \/ MatchUpdateKnowledge
    \/ MatchState

SpecM == InitM /\ [][NextM]_vars

-----------------------------------------------------------------------------
(* The signature level: StateMatcher.signature as the function of the snapshot *)
(* it is given.  A snapshot carries a structural tree under "dom_tree" (or no  *)
(* such key) and a URL; a node carries a tag, a text and its children, which   *)
(* are a list or None (iterable = FALSE).  sha256 and the joins are modelled   *)
(* by the values they are applied to.                                          *)

Node(tag, text, children, iterable) ==
    [tag |-> tag, text |-> text, children |-> children, iterable |-> iterable]

Url(host, path, query, fragment, parses) ==
    [host |-> host, path |-> path, query |-> query, fragment |-> fragment,
     parses |-> parses]

RECURSIVE _extract_tags(_, _), iterate_children(_, _, _)
\* StateMatcher._extract_tags on a dict node: r.acc is the list acc, r.ok is FALSE
\* once an exception is raised
_extract_tags(node, r) ==
    IF ~r.ok \/ Len(r.acc) >= tag_limit THEN r
    ELSE iterate_children(node, 1,
            IF node.tag # "" THEN [r EXCEPT !.acc = Append(@, node.tag)] ELSE r)

\* for c in children: self._extract_tags(c, acc, limit); TypeError when children
\* is None
iterate_children(node, i, r) ==
    IF ~r.ok THEN r
    ELSE IF ~node.iterable THEN [r EXCEPT !.ok = FALSE]
    ELSE IF i > Len(node.children) THEN r
    ELSE iterate_children(node, i + 1, _extract_tags(node.children[i], r))

\* the tags gathered from a snapshot: from snapshot["dom_tree"], or from the
\* snapshot itself, which has neither "tag" nor "children"
gathered_tags(snapshot) ==
    IF snapshot.has_dom_tree
    THEN _extract_tags(snapshot.dom_tree, [ok |-> TRUE, acc |-> <<>>])
    ELSE [ok |-> TRUE, acc |-> <<>>]

\* StateMatcher._canonicalize: ",".join(tags), or str(snapshot)[:1024] when the
\* extraction raised
canonical_string(snapshot) ==
    IF gathered_tags(snapshot).ok
    THEN <<"tags", gathered_tags(snapshot).acc>>
    ELSE <<"str", snapshot>>

\* StateMatcher.signature: the url part: path, "?" + query when there is one; the
\* whole URL when urlparse raised
url_string(snapshot) ==
    IF snapshot.url.parses
    THEN <<"path", snapshot.url.path, snapshot.url.query>>
    ELSE <<"url", snapshot.url>>

\* StateMatcher.signature: sha256(f"{canon}|{url}")
signature_string(snapshot) == <<canonical_string(snapshot), url_string(snapshot)>>

\* nodes without children: with and without a tag, of two texts, children [] or None
Leaves == {Node(t, x, <<>>, it) : t \in {"", "div", "a"}, x \in {"x", "y"}, it \in BOOLEAN}
\* structural trees of one, two and three nodes
DomTrees ==
    Leaves
    \cup {Node("div", "x", <<c>>, TRUE) : c \in Leaves}
    \cup {Node("div", "x", <<c, Node("a", "x", <<>>, TRUE)>>, TRUE) : c \in Leaves}

\* the snapshots signature is applied to
RawSnapshots ==
    {[has_dom_tree |-> d, dom_tree |-> t, url |-> Url(h, p, q, f, ok)] :
        d \in BOOLEAN, t \in DomTrees, h \in {"h", "g"}, p \in {"/", "/p"},
        q \in {"", "q"}, f \in {"", "f"}, ok \in BOOLEAN}

InitS ==
    /\ K = EmptyKnowledge
    /\ EQUIV_CACHE = EmptyCache
    /\ api_key = FALSE
    /\ max_depth = MaxDepth
    /\ pc = "signature"
    /\ page = 0
    /\ state_snapshot = NoSnapshot
    /\ current_abs_state_id = 0
    /\ nav_steps = <<>>
    /\ next_action = 0
    /\ concrete_action_info = NoAction
    /\ visited_state_ids = {}
    /\ steps_executed = 0
    /\ no_path_counter = 0
    /\ state_stack = <<>>
    /\ sig_cache = {}
    /\ been_in = {}
    /\ calls = 0
    /\ hist = Hist("init", 0, 0, 0, 0)

\* StateMatcher().signature(snapshot)
CallSignature ==
    /\ pc = "signature"
    /\ \E snapshot \in RawSnapshots :
           hist' = Hist("signature", snapshot, signature_string(snapshot), 0, 0)
    /\ UNCHANGED <<K, EQUIV_CACHE, calls, agent_vars>>

NextS == CallSignature

SpecS == InitS /\ [][NextS]_vars

-----------------------------------------------------------------------------
(* The fair exploration loop: every browser and oracle call returns, so a step *)
(* of explore() that can be taken is eventually taken.                         *)
FairSpec == Spec /\ WF_vars(Next)

-----------------------------------------------------------------------------
(* Properties *)

\* the ids of the actions of K.abstract_actions flagged unexplored
UnexploredIds(Kn) ==
    {Kn.abstract_actions[i].action_id :
        i \in {j \in DOMAIN Kn.abstract_actions :
                  Kn.abstract_actions[j].exploration_flag = "unexplored"}}

\* the flag of the action with this id
FlagOf(Kn, aid) ==
    (CHOOSE a \in Range(Kn.abstract_actions) : a.action_id = aid).exploration_flag

\* C1: in every state of the knowledge, whatever sequence of register_action,
\* update_action_flag, update_knowledge and find_path calls led to it,
\* unexplored_action_ids is exactly the set of ids of the actions whose flag is
\* unexplored
C1_UnexploredIndexExact == K.unexplored_action_ids = UnexploredIds(K)

\* C1, the case: a flag was changed, and the knowledge holds both an unexplored
\* action and one that is no longer unexplored
C1_Witness ==
    /\ hist.op = "update_action_flag"
    /\ K.unexplored_action_ids # {}
    /\ \E a \in Range(K.abstract_actions) : a.exploration_flag # "unexplored"

\* C2: in every state the exploration loop reaches between two iterations or
\* after its end, no edge of the AIG carries an action that is flagged
\* ineffective
C2_NoEdgeOfIneffectiveAction ==
    pc \in {"loop", "done"} =>
        \A e \in Range(K.aig.edges) : FlagOf(K, e[3]) # "ineffective"

\* C3: when update_knowledge flags the executed action a ineffective, every edge
\* keyed by a that the AIG held before (a was explored from X to Y) is gone
\* afterwards
C3_IneffectiveRemovesEdge ==
    [][\A e \in Range(K.aig.edges) :
          (/\ hist'.op = "update_knowledge"
           /\ hist'.ret = e[3]
           /\ FlagOf(K', e[3]) = "ineffective")
          => e \notin Range(K'.aig.edges)]_vars

\* C5: explore() never ends through an unhandled error
C5_NoUnhandledError == pc # "crashed"

\* C7: the agent is never in more than max_depth distinct abstract states over a
\* run, the start state included
C7_StatesWithinMaxDepth == Cardinality(been_in) <= max_depth

\* one step of explore() makes progress: an iteration that returns to the loop
\* head without executing takes an action out of the unexplored set and registers
\* none; an iteration that executes goes on to observe and counts one step
C4_Progress ==
    /\ (pc = "select" /\ pc' = "loop")
          => /\ K'.unexplored_action_ids \subseteq K.unexplored_action_ids
             /\ K'.unexplored_action_ids # K.unexplored_action_ids
             /\ Len(K'.abstract_actions) = Len(K.abstract_actions)
    /\ pc = "select" => pc' \in {"loop", "execute", "done", "crashed"}
    /\ pc = "execute" => pc' \in {"observe", "crashed"}
    /\ pc = "observe" => pc' \in {"post", "crashed"}
    /\ (pc = "observe" /\ pc' = "post")
          => steps_executed' = steps_executed + 1 /\ steps_executed' <= max_steps
    /\ pc = "post" => pc' \in {"loop", "crashed"}
    /\ pc \in {"done", "crashed"} => pc' = pc

\* C4: the exploration loop terminates (explore() returns, or an exception leaves
\* it: that is C5's matter), and every iteration that completes either executes
\* one step, counted and bounded by max_steps, or moves an unexplored action out
\* of the unexplored set without registering a new action
C4_TerminatesWithProgress == [][C4_Progress]_vars /\ <>(pc \in {"done", "crashed"})

\* C4, the case: an iteration ended without executing, because no path led to the
\* selected action, and the loop has ended after executed steps
C4_Witness ==
    /\ pc = "done"
    /\ steps_executed > 0
    /\ no_path_counter > 0

\* C6: an iteration starts only while the unexplored set is not empty, fewer than
\* max_steps steps were executed and at most max_depth states were visited; and
\* the executed-step count never exceeds max_steps
C6_IterationGuard ==
    /\ [][(pc = "loop" /\ pc' = "select")
             => /\ K.unexplored_action_ids # {}
                /\ steps_executed < max_steps
                /\ Cardinality(visited_state_ids) <= max_depth]_vars
    /\ [](steps_executed <= max_steps)

\* C6, the case: the last iteration the budgets allow has started, with
\* max_depth states visited and one step left
C6_Witness ==
    /\ pc = "select"
    /\ steps_executed = max_steps - 1
    /\ Cardinality(visited_state_ids) = max_depth

\* the unexplored actions among the actions of a state K knows, {} otherwise
UnexploredIn(Kn, state_id) ==
    IF state_id \in 1..Len(Kn.abstract_states)
    THEN Kn.abstract_states[state_id].actions \cap UnexploredIds(Kn)
    ELSE {}

\* x is the lowest id of S
LowestOf(x, S) == x \in S /\ \A y \in S : x <= y

\* C8: select_action(K, s) returns the unexplored action of state s with the
\* lowest id when s has an unexplored action, and otherwise the unexplored action
\* with the lowest id among all registered actions
C8_LowestIdLocalFirst ==
    hist.op = "select_action"
    => IF UnexploredIn(K, hist.arg) # {}
       THEN LowestOf(hist.ret, UnexploredIn(K, hist.arg))
       ELSE UnexploredIds(K) # {} => LowestOf(hist.ret, UnexploredIds(K))

\* C8, the case: the state holds an action that is no longer unexplored and two
\* unexplored ones, and an unexplored action of another state has a lower id
C8_Witness ==
    /\ hist.op = "select_action"
    /\ Cardinality(UnexploredIn(K, hist.arg)) >= 2
    /\ K.abstract_states[hist.arg].actions \ UnexploredIds(K) # {}
    /\ \E x \in UnexploredIds(K) : x < hist.ret

\* C9: whatever the current state id (None and an unknown id included),
\* select_action returns None exactly when unexplored_action_ids is empty
C9_NoneIffIndexEmpty ==
    hist.op = "select_action" => (hist.ret = 0 <=> K.unexplored_action_ids = {})

\* C9, the case: select_action is given an id that K does not know, K holds
\* actions and none of them is unexplored
C9_Witness ==
    /\ hist.op = "select_action"
    /\ hist.arg = Len(K.abstract_states) + 1
    /\ K.abstract_actions # <<>>
    /\ hist.ret = 0

\* C10: after update_knowledge with a previous snapshot and an executed action
\* that both resolve, the previous and the new snapshot resolving to the same
\* state, the executed action is flagged ineffective and that state has no edge
\* to itself keyed by the action
C10_SameStateIneffective ==
    (/\ hist.op = "update_knowledge"
     /\ hist.prev_abs_state # 0
     /\ hist.ret # 0
     /\ hist.prev_abs_state = hist.new_abs_state)
    => /\ FlagOf(K, hist.ret) = "ineffective"
       /\ <<hist.prev_abs_state, hist.new_abs_state, hist.ret>> \notin Range(K.aig.edges)

\* C10, the case: the executed action was explored before, with an edge to
\* another state, and is executed again without leaving the state
C10_Witness ==
    /\ hist.op = "update_knowledge"
    /\ hist.prev_abs_state # 0
    /\ hist.ret # 0
    /\ hist.prev_abs_state = hist.new_abs_state
    /\ \E e \in Range(K.aig.edges) : e[3] = hist.ret

\* the number of edges of the AIG from u to v keyed by k
EdgeCount(Kn, u, v, k) ==
    Cardinality({i \in DOMAIN Kn.aig.edges : Kn.aig.edges[i] = <<u, v, k>>})

\* C11: after update_knowledge with a previous snapshot and an executed action
\* that both resolve, the new snapshot resolving to another state, the executed
\* action is flagged explored and the AIG holds exactly one edge from the previous
\* state to the new state keyed by the action
C11_OtherStateExploredOneEdge ==
    (/\ hist.op = "update_knowledge"
     /\ hist.prev_abs_state # 0
     /\ hist.ret # 0
     /\ hist.prev_abs_state # hist.new_abs_state)
    => /\ FlagOf(K, hist.ret) = "explored"
       /\ EdgeCount(K, hist.prev_abs_state, hist.new_abs_state, hist.ret) = 1

\* C11, the case: the same step is ingested a second time (a repeated traversal
\* of the edge)
C11_Witness ==
    /\ hist.op = "update_knowledge"
    /\ hist.prev_abs_state # 0
    /\ hist.ret # 0
    /\ hist.prev_abs_state # hist.new_abs_state
    /\ Len(K.raw_trace) >= 2
    /\ K.raw_trace[Len(K.raw_trace)] = K.raw_trace[Len(K.raw_trace) - 1]

\* the ids of the registered actions
ActionIdsOf(Kn) == {a.action_id : a \in Range(Kn.abstract_actions)}

\* every action registered in K1 has the same flag in K2
SameFlags(K1, K2) ==
    \A a \in Range(K1.abstract_actions) : FlagOf(K2, a.action_id) = a.exploration_flag

\* C12: when update_knowledge does not resolve the previous state or does not
\* find the executed action (or is given none), the flag of every action that
\* existed, the unexplored index apart from the actions just registered, and the
\* edges of the AIG are as before the call
C12_UnresolvedStepChangesNothing ==
    [][(/\ hist'.op = "update_knowledge"
        /\ (hist'.prev_abs_state = 0 \/ hist'.ret = 0))
       => /\ SameFlags(K, K')
          /\ K'.unexplored_action_ids \cap ActionIdsOf(K) = K.unexplored_action_ids
          /\ K'.aig.edges = K.aig.edges]_vars

\* C12, the case: a step was reported whose previous snapshot resolves while its
\* action matches no abstract action, the AIG holding an edge already
C12_Witness ==
    /\ hist.op = "update_knowledge"
    /\ hist.arg # NoAction
    /\ hist.prev_abs_state # 0
    /\ hist.ret = 0
    /\ K.aig.edges # <<>>

\* the step is a call of update_knowledge with the triple that the call before
\* it ingested
Reingested ==
    /\ hist.op = "update_knowledge"
    /\ hist'.op = "update_knowledge"
    /\ Len(K'.raw_trace) = Len(K.raw_trace) + 1
    /\ K'.raw_trace[Len(K'.raw_trace)] = K.raw_trace[Len(K.raw_trace)]

\* C13: a second update_knowledge with the triple just ingested creates no state
\* and no action and leaves the flags, the edges and the elements of the actions
\* as they were; the raw trace has one more entry and the cluster of the matched
\* state one more snapshot, every other cluster being as it was
C13_ReingestAddsOneSnapshot ==
    [][Reingested
       => /\ Len(K'.abstract_states) = Len(K.abstract_states)
          /\ Len(K'.abstract_actions) = Len(K.abstract_actions)
          /\ SameFlags(K, K')
          /\ K'.aig.edges = K.aig.edges
          /\ \A i \in DOMAIN K.abstract_actions :
                K'.abstract_actions[i].actual_elements = K.abstract_actions[i].actual_elements
          /\ \A i \in DOMAIN K.abstract_states :
                Len(K'.abstract_states[i].concrete_states)
                = Len(K.abstract_states[i].concrete_states)
                  + (IF i = hist'.new_abs_state THEN 1 ELSE 0)]_vars

\* C13, the case: a step between two states, with its executed action resolved
\* and its edge in the AIG, was ingested twice
C13_Witness ==
    /\ hist.op = "update_knowledge"
    /\ hist.ret # 0
    /\ hist.prev_abs_state # hist.new_abs_state
    /\ Len(K.raw_trace) >= 2
    /\ K.raw_trace[Len(K.raw_trace)] = K.raw_trace[Len(K.raw_trace) - 1]
    /\ Len(K.abstract_states[hist.new_abs_state].concrete_states) >= 2

\* the step is the first update_knowledge on an empty knowledge, with a snapshot
\* whose candidate actions are the raw one-action-per-element list
FirstRawIngest ==
    /\ K = EmptyKnowledge
    /\ hist'.op = "update_knowledge"
    /\ K'.raw_trace[1].end_state.grouped_actions
           = raw_actions(K'.raw_trace[1].end_state.page)

\* the raw elements of the snapshot
RawOf(Kn) == raw_actions(Kn.raw_trace[1].end_state.page)

\* n unexplored actions are registered, all under the one state of K
RegisteredUnderOneState(Kn, n) ==
    /\ Len(Kn.abstract_states) = 1
    /\ Len(Kn.abstract_actions) = n
    /\ \A a \in Range(Kn.abstract_actions) :
           a.exploration_flag = "unexplored" /\ a.action_id \in Kn.abstract_states[1].actions
    /\ Cardinality(Kn.abstract_states[1].actions) = n
    /\ Cardinality(Kn.unexplored_action_ids) = n

\* no two raw elements of the same action type carry the same non-empty function
\* description (up to case and surrounding blanks) or the same non-empty locator
DistinctFunctions(raw) ==
    \A i, j \in DOMAIN raw :
        (i < j /\ raw[i].action_type = raw[j].action_type)
        => /\ (strip_lower(raw[j].function) = ""
               \/ strip_lower(raw[i].function) # strip_lower(raw[j].function))
           /\ (raw[j].xpath = "" \/ raw[i].xpath # raw[j].xpath)

\* C14 as stated: from empty knowledge, a first snapshot with n raw elements and
\* no grouping registers n unexplored actions under one new state, and the
\* unexplored index has size n
C14_FirstSnapshotRegistersAll ==
    [][FirstRawIngest => RegisteredUnderOneState(K', Len(RawOf(K')))]_vars

\* C14, amended: the same, for a snapshot in which no two elements of one action
\* type share a function description or a locator (an element that does is merged
\* into the action of the earlier element by step 3)
C14_FirstSnapshotRegistersDistinct ==
    [][(FirstRawIngest /\ DistinctFunctions(RawOf(K')))
       => RegisteredUnderOneState(K', Len(RawOf(K')))]_vars

\* C14, the case: the first snapshot had three raw elements with distinct
\* descriptions and locators
C14_Witness ==
    /\ hist.op = "update_knowledge"
    /\ Len(K.raw_trace) = 1
    /\ K.raw_trace[1].end_state.grouped_actions = RawOf(K)
    /\ Len(RawOf(K)) = 3
    /\ DistinctFunctions(RawOf(K))
    /\ Len(K.abstract_actions) = 3

\* the knowledge loaded by the last step, a from_json(to_json(K))
Loaded == hist.ret

\* C15: from_json(to_json(K)) has as many states and as many actions as K, the
\* same flag for every action id, the same set of edge triples and the same
\* unexplored set
C15_RoundTripKeepsCountsFlagsEdgesIndex ==
    hist.op = "from_json"
    => /\ Len(Loaded.abstract_states) = Len(K.abstract_states)
       /\ Len(Loaded.abstract_actions) = Len(K.abstract_actions)
       /\ SameFlags(K, Loaded)
       /\ Range(Loaded.aig.edges) = Range(K.aig.edges)
       /\ Loaded.unexplored_action_ids = K.unexplored_action_ids

\* C15, the case: a knowledge with an edge, an action that is not unexplored and a
\* non-empty index was saved and loaded
C15_Witness ==
    /\ hist.op = "from_json"
    /\ K.aig.edges # <<>>
    /\ K.unexplored_action_ids # {}
    /\ \E a \in Range(K.abstract_actions) : a.exploration_flag # "unexplored"

\* the path queries between two states: shortest_path (a NodeNotFound it raises
\* is the result "raised") and path_to_state
PathQueries(Kn, s, t) ==
    [shortest |-> IF node_not_found(Kn.aig, s, t) THEN "raised"
                  ELSE shortest_path(Kn.aig, s, t),
     to_state |-> path_to_state(Kn, s, t)]

\* C16: the graph of from_json(to_json(K)) has the nodes of the graph of K, every
\* abstract state among them, and a path query between any two states gives what
\* it gives on K
C16_RoundTripKeepsNodes ==
    hist.op = "from_json"
    => /\ Loaded.aig.nodes = K.aig.nodes
       /\ \A i \in DOMAIN Loaded.abstract_states : i \in Loaded.aig.nodes
       /\ \A s, t \in DOMAIN K.abstract_states :
              PathQueries(Loaded, s, t) = PathQueries(K, s, t)

\* the last step was a find_path; the knowledge it was called on, its result, the
\* state it was called from and the source state of its target action
FindPathCalled == hist.op = "find_path"
Before == hist.ret.before
Result == hist.ret.result
Current == hist.prev_abs_state
Target == ActionOf(Before, hist.arg).source_abs_state

\* the nodes one directed edge away from a node of W, and W
Grow(g, W) == W \cup {e[2] : e \in {e \in Range(g.edges) : e[1] \in W}}

\* the nodes one edge away from a node of W, whatever its direction, and W
GrowAny(g, W) == Grow(g, W) \cup {e[1] : e \in {e \in Range(g.edges) : e[2] \in W}}

\* the nodes at most n directed edges from s
RECURSIVE Within(_, _, _)
Within(g, s, n) == IF n = 0 THEN {s} ELSE Grow(g, Within(g, s, n - 1))

\* the nodes at most n edges from s, whatever their direction
RECURSIVE WithinAny(_, _, _)
WithinAny(g, s, n) == IF n = 0 THEN {s} ELSE GrowAny(g, WithinAny(g, s, n - 1))

\* a directed path leads from s to t
Reachable(g, s, t) == t \in Within(g, s, Cardinality(g.nodes))

\* s and t are in one connected component of the graph
Connected(g, s, t) == t \in WithinAny(g, s, Cardinality(g.nodes))

\* the least number of directed edges from s to t, for t reachable from s
Distance(g, s, t) ==
    CHOOSE n \in 0..Cardinality(g.nodes) :
        t \in Within(g, s, n) /\ \A m \in 0..(n - 1) : t \notin Within(g, s, m)

\* the nodes a walk from a node of S ends in when its i-th edge is keyed by path[i]
RECURSIVE WalkEnds(_, _, _)
WalkEnds(g, S, path) ==
    IF path = <<>> THEN S
    ELSE WalkEnds(g, {e[2] : e \in {e \in Range(g.edges) : e[1] \in S /\ e[3] = Head(path)}},
                  Tail(path))

\* C17: find_path returns the empty list only if the source state of the target
\* action cannot be reached from current_state; it does not when current_state is
\* that state
C17_EmptyOnlyIfUnreachable ==
    (FindPathCalled /\ ~Result.raised /\ Result.path = <<>>)
    => (Target = 0 \/ ~Reachable(Before.aig, Current, Target))

\* C18: when current_state and the source state of the target action are in
\* different connected components, find_path returns the empty list after at most
\* max_retry attempts and does not raise
C18_DisconnectedGivesEmpty ==
    (FindPathCalled /\ Target # 0 /\ ~Connected(Before.aig, Current, Target))
    => /\ ~Result.raised
       /\ Result.path = <<>>
       /\ Result.attempts <= max_retry

\* C18, the case: find_path was called across two components of a graph with an
\* edge and gave up after max_retry attempts
C18_Witness ==
    /\ FindPathCalled
    /\ Target # 0
    /\ ~Connected(Before.aig, Current, Target)
    /\ Before.aig.edges # <<>>
    /\ Result.path = <<>>
    /\ Result.attempts = max_retry

\* a directed path of at least one edge leads from current_state to the source
\* state of the target action
DirectedPathExists ==
    Target # 0 /\ Current # Target /\ Reachable(Before.aig, Current, Target)

\* C19: when a directed path of at least one edge leads from current_state to the
\* source state of the target action, find_path returns as many actions as the
\* shortest such path has edges, the i-th action keys the i-th edge of a path from
\* current_state to that state, and the graph is as before
C19_DirectedPathIsShortest ==
    (FindPathCalled /\ DirectedPathExists)
    => /\ ~Result.raised
       /\ Len(Result.path) = Distance(Before.aig, Current, Target)
       /\ Target \in WalkEnds(Before.aig, {Current}, Result.path)
       /\ K.aig = Before.aig

\* C19, the case: the target was one edge away and a longer path led to it too
C19_Witness ==
    /\ FindPathCalled
    /\ DirectedPathExists
    /\ Len(Result.path) = 1
    /\ \E m \in Before.aig.nodes \ {Current, Target} :
           /\ m \in Within(Before.aig, Current, 1)
           /\ Target \in Within(Before.aig, m, 1)

\* the edges of the graph whose action is not ineffective, in their order
Effective(Kn) ==
    SelectSeq(Kn.aig.edges, LAMBDA e : ActionOf(Kn, e[3]).exploration_flag # "ineffective")

\* C20: after find_path returns from a search in which the directed search gave no
\* path, the graph has no edge of an ineffective action, and the edges of the other
\* actions, every flag and the unexplored index are as before
C20_FailedSearchPrunesIneffective ==
    (FindPathCalled /\ ~Result.raised /\ Target # 0 /\ ~DirectedPathExists)
    => /\ \A e \in Range(K.aig.edges) : ActionOf(K, e[3]).exploration_flag # "ineffective"
       /\ K.aig.edges = Effective(Before)
       /\ K.abstract_actions = Before.abstract_actions
       /\ K.unexplored_action_ids = Before.unexplored_action_ids

\* C20, the case: the search failed on a graph with an edge of an ineffective
\* action and an edge of another action
C20_Witness ==
    /\ FindPathCalled
    /\ ~Result.raised
    /\ Target # 0
    /\ ~DirectedPathExists
    /\ Effective(Before) # <<>>
    /\ Effective(Before) # Before.aig.edges
    /\ K.aig.edges = Effective(Before)

\* the step is the no-route branch of explore(): the selected action is not on
\* the page and find_path returned no route (hist'.ret is the action)
NoRouteStep == pc = "select" /\ hist'.op = "no_path"

\* C21: when the selected action is not available on the page and find_path gives
\* no route, the action is flagged ineffective and leaves the unexplored index, no
\* browser action is executed in the iteration (the page, the step count and the
\* last executed action are as before), and the loop goes on with the selector:
\* no navigation step is queued and the next step is the loop guard
C21_NoRouteFlagsAndLoops ==
    [][/\ NoRouteStep
          => /\ FlagOf(K', hist'.ret) = "ineffective"
             /\ hist'.ret \notin K'.unexplored_action_ids
             /\ hist'.ret \in K.unexplored_action_ids
             /\ page' = page
             /\ steps_executed' = steps_executed
             /\ concrete_action_info' = concrete_action_info
             /\ nav_steps' = <<>>
             /\ pc' = "loop"
       /\ hist.op = "no_path"
          => pc' = IF _should_continue(K, steps_executed, visited_state_ids)
                   THEN "select" ELSE "done"]_vars

\* C21, the case: an action was flagged for want of a route while another action
\* is still unexplored
C21_Witness ==
    /\ hist.op = "no_path"
    /\ FlagOf(K, hist.ret) = "ineffective"
    /\ K.unexplored_action_ids # {}

\* C22: once the no-path counter has reached its limit the agent restarts from
\* the start URL, which resets the counter, before it selects or executes an
\* action: no action is selected or executed with the counter at the limit
C22_RestartBeforeNextAction ==
    pc \in {"select", "execute"} => no_path_counter < _no_path_limit

\* the last step was an _execute_action whose action left the allowed origin
LeftOrigin == hist.op = "_execute_action" /\ hist.prev_abs_state = "left_origin"

\* C23: when an executed action navigates outside the allowed origin the page is
\* reverted and the action is flagged ineffective, and after the knowledge update
\* that follows the step the action is still flagged ineffective and keys no edge
\* of the AIG
C23_LeftOriginStaysIneffective ==
    [][/\ (pc = "execute" /\ hist'.op = "_execute_action"
           /\ hist'.prev_abs_state = "left_origin")
          => (page' \in RevertPages(page) /\ FlagOf(K', hist'.arg) = "ineffective")
       /\ (LeftOrigin /\ hist'.op = "update_knowledge")
          => /\ FlagOf(K', hist.arg) = "ineffective"
             /\ \A e \in Range(K'.aig.edges) : e[3] # hist.arg]_vars

\* the primary element of action a is not on page p under its id, and an element
\* of the page carries its recorded locator
StaleButLocated(a, p) ==
    /\ Len(a.actual_elements) > 0
    /\ a.actual_elements[1].description # ""
    /\ \A i \in DOMAIN get_interactive_rects(p) :
           get_interactive_rects(p)[i].id # a.actual_elements[1].node_id
    /\ \E i \in DOMAIN get_interactive_rects(p) :
           get_interactive_rects(p)[i].xpath = a.actual_elements[1].description

\* the availability check r of the i-th action on page p succeeded and changed
\* nothing but the id of the primary element, now that of a live element with its
\* locator
RefreshedOnly(Kn, p, i, r) ==
    /\ r.ok
    /\ \E n \in DOMAIN get_interactive_rects(p) :
           /\ get_interactive_rects(p)[n].xpath
                  = Kn.abstract_actions[i].actual_elements[1].description
           /\ r.K = [Kn EXCEPT !.abstract_actions[i].actual_elements[1].node_id
                                   = get_interactive_rects(p)[n].id]

\* C24: when the primary element id of an action is absent from the live page and
\* an element of the page carries the primary element's recorded locator, the
\* availability check returns true and replaces the primary element's id by the
\* id of that element; nothing else of the knowledge changes
C24_StaleIdRefreshed ==
    \A i \in DOMAIN K.abstract_actions : \A p \in PageIds :
        StaleButLocated(K.abstract_actions[i], p)
        => RefreshedOnly(K, p, i, _is_action_available(K, p, K.abstract_actions[i].action_id))

\* C24, the case: _execute_action found the element of its action by the locator:
\* the id it started with (in action_result) is no longer the primary element's
C24_Witness ==
    /\ hist.op = "_execute_action"
    /\ hist.prev_abs_state = "performed"
    /\ ActionOf(K, hist.arg).actual_elements[1].node_id # hist.ret.element_id

\* the positions of the states of K whose stored signature is that of the snapshot
SameSignature(Kn, snapshot) ==
    {i \in DOMAIN Kn.abstract_states :
        Kn.abstract_states[i].repr_signature = signature(snapshot)}

\* C25: match_state returns the first state, in insertion order, whose stored
\* signature is that of the snapshot whenever there is one, whatever the oracle
\* would answer and with the cache as it was (the oracle is not consulted); when
\* there is none and no oracle is configured it returns none; K is not written
\* (match_state gives a state and a cache, no knowledge)
C25_SignatureMatchFirst ==
    \A snapshot \in Snapshots : \A key_set \in BOOLEAN :
    \A answers \in SUBSET oracle_keys(K, snapshot) :
        /\ SameSignature(K, snapshot) # {}
           => match_state(K, EQUIV_CACHE, key_set, snapshot, answers)
                  = [st |-> K.abstract_states[Least(SameSignature(K, snapshot))].state_id,
                     cache |-> EQUIV_CACHE]
        /\ (SameSignature(K, snapshot) = {} /\ ~key_set)
           => match_state(K, EQUIV_CACHE, key_set, snapshot, answers)
                  = [st |-> 0, cache |-> EQUIV_CACHE]

\* C25, the case: with an oracle configured and asked before, a second snapshot was
\* resolved to the state that has its signature
C25_Witness ==
    /\ hist.op = "update_knowledge"
    /\ api_key
    /\ EQUIV_CACHE # EmptyCache
    /\ Len(K.abstract_states) >= 2
    /\ Len(K.abstract_states[hist.new_abs_state].concrete_states) >= 2
    /\ hist.new_abs_state \in SameSignature(K, K.raw_trace[Len(K.raw_trace)].end_state)

\* K with the cluster of every state cut to its first 3 snapshots
FirstThreeRefs(Kn) ==
    [Kn EXCEPT !.abstract_states =
        [i \in DOMAIN Kn.abstract_states |->
            [Kn.abstract_states[i] EXCEPT !.concrete_states =
                SubSeq(@, 1, Min(3, Len(@)))]]]

\* the keys the cache holds a decision for
Decided(cache) == cache.yes \cup cache.no

\* C26: over any sequence of match_state calls the oracle is asked at most once
\* about a pair of truncated signatures; a pair that was decided keeps its cached
\* decision, whatever the oracle would say now; and a call compares at most the
\* first 3 snapshots of a state's cluster: it gives what it gives on the knowledge
\* with every cluster cut to its first 3
C26_OracleOncePerPair ==
    /\ EQUIV_CACHE.again = {}
    /\ Decided(EQUIV_CACHE) = EQUIV_CACHE.asked
    /\ EQUIV_CACHE.yes \cap EQUIV_CACHE.no = {}
    /\ hist.op \in {"update_knowledge", "match_state"}
       => /\ hist.prev_abs_state.yes \subseteq EQUIV_CACHE.yes
          /\ hist.prev_abs_state.no \subseteq EQUIV_CACHE.no
    /\ \A snapshot \in MatchSnapshots : \A answers \in SUBSET oracle_keys(K, snapshot) :
          /\ match_state(K, EQUIV_CACHE, TRUE, snapshot, answers)
                 = match_state(K, EQUIV_CACHE, TRUE, snapshot, answers \ Decided(EQUIV_CACHE))
          /\ match_state(K, EQUIV_CACHE, TRUE, snapshot, answers)
                 = match_state(FirstThreeRefs(K), EQUIV_CACHE, TRUE, snapshot, answers)

\* C26, the case: match_state resolved a snapshot from the cache alone, with no
\* state of its signature, in a knowledge where a cluster holds a fourth snapshot
\* whose pair with the snapshot was never put to the oracle
C26_Witness ==
    /\ hist.op = "match_state"
    /\ SameSignature(K, hist.arg) = {}
    /\ EQUIV_CACHE = hist.prev_abs_state
    /\ EQUIV_CACHE.no # {}
    /\ \E st \in Range(K.abstract_states) :
           /\ Len(st.concrete_states) > 3
           /\ <<_safe_sig(st.concrete_states[4]), _safe_sig(hist.arg)>>
                  \notin EQUIV_CACHE.asked
           /\ <<_safe_sig(st.concrete_states[1]), _safe_sig(hist.arg)>>
                  \in EQUIV_CACHE.no

RECURSIVE PreOrder(_), PreOrderOf(_, _)
\* the tag names of a structural tree, depth first
PreOrder(node) ==
    (IF node.tag # "" THEN <<node.tag>> ELSE <<>>) \o PreOrderOf(node.children, 1)

PreOrderOf(children, i) ==
    IF i > Len(children) THEN <<>>
    ELSE PreOrder(children[i]) \o PreOrderOf(children, i + 1)

\* the sequence of at most tag_limit tag names of a snapshot
TagSequence(snapshot) ==
    IF snapshot.has_dom_tree
    THEN SubSeq(PreOrder(snapshot.dom_tree), 1,
                Min(tag_limit, Len(PreOrder(snapshot.dom_tree))))
    ELSE <<>>

\* the URL path and query string of a snapshot
PathAndQuery(snapshot) == <<snapshot.url.path, snapshot.url.query>>

\* C27: the signature of a snapshot depends only on its sequence of at most
\* tag_limit tag names and on the path and query string of its URL: every
\* snapshot with the same two has the signature the call returned, whatever its
\* texts, its host and its fragment
C27_DependsOnlyOnTagsAndRoute ==
    hist.op = "signature"
    => \A other \in RawSnapshots :
          /\ TagSequence(other) = TagSequence(hist.arg)
          /\ PathAndQuery(other) = PathAndQuery(hist.arg)
          => signature_string(other) = hist

\* the index of the most recently pushed state of stack that is in Good, 0 when
\* stack holds none
LastIn(stack, Good) ==
    IF \E i \in DOMAIN stack : stack[i] \in Good
    THEN CHOOSE i \in DOMAIN stack :
            stack[i] \in Good /\ \A j \in DOMAIN stack : j > i => stack[j] \notin Good
    ELSE 0

\* the states that have an unexplored action
WithWork == {st \in 1..Len(K.abstract_states) : HasUnexplored(K, st)}

\* the states with an unexplored action the graph has a route to from the state
\* the step ended in
WithWorkAndRoute == {st \in WithWork : Reachable(K.aig, hist.prev_abs_state, st)}

\* a step ended in a state without unexplored action, the stack holding a state
\* that has one
FinishedWithStack ==
    /\ hist.op = "back_tracking"
    /\ ~hist.ret.raised
    /\ ~HasUnexplored(K, hist.prev_abs_state)
    /\ LastIn(hist.arg, WithWork) # 0

\* C28, as stated: whenever, after a step, the current state has no unexplored
\* action and the stack holds a state that has one, the navigation queue is set to
\* a route from the current state to the most recently pushed such state
C28_RouteToLastPushed ==
    FinishedWithStack
    => /\ nav_steps # <<>>
       /\ hist.arg[LastIn(hist.arg, WithWork)]
              \in WalkEnds(K.aig, {hist.prev_abs_state}, nav_steps)

\* C28, as the code has it: the navigation queue is set to a route to the most
\* recently pushed state that has an unexplored action and that the graph has a
\* route to; that state and the states pushed after it leave the stack; when the
\* stack holds no such state the queue and the stack are left empty
C28_RouteToLastRoutable ==
    FinishedWithStack
    => IF LastIn(hist.arg, WithWorkAndRoute) = 0
       THEN nav_steps = <<>> /\ state_stack = <<>>
       ELSE /\ nav_steps # <<>>
            /\ hist.arg[LastIn(hist.arg, WithWorkAndRoute)]
                   \in WalkEnds(K.aig, {hist.prev_abs_state}, nav_steps)
            /\ state_stack = SubSeq(hist.arg, 1, LastIn(hist.arg, WithWorkAndRoute) - 1)

\* C28, the case: the most recently pushed state with an unexplored action cannot
\* be reached, and the agent is routed to a state pushed before it
C28_Witness ==
    /\ FinishedWithStack
    /\ LastIn(hist.arg, WithWorkAndRoute) # 0
    /\ LastIn(hist.arg, WithWorkAndRoute) < LastIn(hist.arg, WithWork)
    /\ nav_steps # <<>>

\* the knowledge step 3 of update_knowledge(K, None, None, snapshot) holds when it
\* comes to the j-th candidate of the snapshot, the oracle answering answers
BeforeCandidate(snapshot, answers, j) ==
    Bind(merge_state(add_raw_trace_item(K, NoSnapshot, NoAction, snapshot),
                     match_state(K, EQUIV_CACHE, api_key, snapshot, answers).st, snapshot),
         LAMBDA r : process_actions(r.K, SubSeq(candidates_of(snapshot), 1, j - 1), 1, r.st,
                                    [n \in 1..Len(candidates_of(snapshot)) |-> 0 - n]))

\* an action of the candidate's type holds the candidate's element id
MatchesById(Kn, c) ==
    \E i \in DOMAIN Kn.abstract_actions :
        /\ Kn.abstract_actions[i].action_type = c.action_type
        /\ HasElement(Kn.abstract_actions[i], c.element_id)

\* an action of the candidate's type has the candidate's function description
MatchesByFunction(Kn, c) ==
    /\ strip_lower(c.function) # ""
    /\ \E i \in DOMAIN Kn.abstract_actions :
        /\ Kn.abstract_actions[i].action_type = c.action_type
        /\ strip_lower(Kn.abstract_actions[i].function_desc) = strip_lower(c.function)

\* the element the match of candidate c added to an action of Kn: no element when
\* the match was by element id or there was none
MergedElements(Kn, c) ==
    {a.actual_elements[Len(a.actual_elements)] :
        a \in {a \in Range(_action_matches_existing(Kn, c).K.abstract_actions) :
                  a \notin Range(Kn.abstract_actions)}}

\* the match tests are applied to candidate c in priority order on Kn
InPriorityOrder(Kn, c) ==
    /\ MatchesById(Kn, c)
       => /\ _action_matches_existing(Kn, c).matched
          /\ _action_matches_existing(Kn, c).K = Kn
    /\ MergedElements(Kn, c) # {} => ~MatchesById(Kn, c)
    /\ (\E e \in MergedElements(Kn, c) : e.description # "") => ~MatchesByFunction(Kn, c)

\* C29: in step 3 of update_knowledge a candidate whose element id is held by an
\* action of its type is matched by element id and no action's element list is
\* changed; a candidate is merged by function description only when no action
\* matches by element id, and by locator only when none matches by function
\* description either
C29_PriorityOrder ==
    \A snapshot \in Snapshots :
    \A answers \in Answers(K, EQUIV_CACHE, api_key, snapshot) :
    \A j \in DOMAIN candidates_of(snapshot) :
        InPriorityOrder(BeforeCandidate(snapshot, answers, j), candidates_of(snapshot)[j])

\* the states whose actions mapping holds the action
HoldersOf(Kn, aid) == {st \in DOMAIN Kn.abstract_states : aid \in Kn.abstract_states[st].actions}

\* C30: every unexplored action has a source state, is in the actions mapping of
\* that state and in the actions mapping of no other state
C30_UnexploredAttachedToSource ==
    \A a \in Range(K.abstract_actions) :
        a.exploration_flag = "unexplored"
        => /\ a.source_abs_state # 0
           /\ HoldersOf(K, a.action_id) = {a.source_abs_state}

\* the raw trace as it reads now: every entry with the element groups its
\* snapshots hold at this moment
raw_trace_now(Kn) ==
    [i \in DOMAIN Kn.raw_trace |->
        [start_state |-> dumped(Kn, Kn.raw_trace[i].start_state),
         action |-> Kn.raw_trace[i].action,
         end_state |-> dumped(Kn, Kn.raw_trace[i].end_state)]]

\* C31: a call of update_knowledge appends one entry, with the action it was
\* given, at the end of the raw trace and every entry the trace had before the
\* call reads after it as it read before
C31_TraceAppendOnly ==
    [][hist'.op = "update_knowledge" /\ calls' = calls + 1
       => /\ Len(K'.raw_trace) = Len(K.raw_trace) + 1
          /\ K'.raw_trace[Len(K'.raw_trace)].action = hist'.arg
          /\ SubSeq(raw_trace_now(K'), 1, Len(K.raw_trace)) = raw_trace_now(K)]_vars

\* state st of Kn has in Kn2 the description it had unless that was empty, and the
\* element groups it had followed by groups it had not, each of them once
GrownWithoutDuplicates(Kn, Kn2, st) ==
    LET old == groups_in(Kn, Kn.abstract_states[st].element_groups)
        new == groups_in(Kn2, Kn2.abstract_states[st].element_groups)
    IN /\ Kn.abstract_states[st].page_description # ""
          => Kn2.abstract_states[st].page_description = Kn.abstract_states[st].page_description
       /\ Len(new) >= Len(old)
       /\ SubSeq(new, 1, Len(old)) = old
       /\ \A i \in Len(old) + 1..Len(new) :
            /\ new[i] \notin Range(old)
            /\ \A j \in Len(old) + 1..Len(new) : i # j => new[i] # new[j]

\* C32: a call of update_knowledge appends the new snapshot to the cluster of one
\* state and changes no other cluster; it creates at most one state, and then
\* that state is the one that received the snapshot; a state that existed keeps
\* a non-empty page description and its element groups grow by groups it had
\* not, without duplicates
C32_OneClusterNoDuplicateGroups ==
    [][hist'.op = "update_knowledge" /\ calls' = calls + 1
       => LET n == Len(K.abstract_states)
              st == hist'.new_abs_state
              S == K'.raw_trace[Len(K'.raw_trace)].end_state
          IN /\ Len(K'.abstract_states) \in {n, n + 1}
             /\ st \in DOMAIN K'.abstract_states
             /\ Len(K'.abstract_states) = n + 1 => st = n + 1
             /\ K'.abstract_states[st].concrete_states =
                    Append(IF st <= n THEN K.abstract_states[st].concrete_states ELSE <<>>, S)
             /\ \A i \in 1..n :
                    i # st => K'.abstract_states[i].concrete_states =
                                 K.abstract_states[i].concrete_states
             /\ st <= n => GrownWithoutDuplicates(K, K', st)]_vars

\* what the caller of find_path sees of a result: whether it raised, the list
\* returned and the knowledge left behind
Outcomes(results) == {[raised |-> r.raised, path |-> r.path, K |-> r.K] : r \in results}

\* C33: on the knowledge, the current state and the target action of a call of
\* find_path, a finder with max_retry = 1 and a finder with max_retry = 3 have
\* the same results: the same list returned and the same knowledge left,
\* and the call made had one of them
C33_RetriesChangeNothing ==
    FindPathCalled
    => /\ Outcomes(find_path_retry(Before, Current, hist.arg, 1)) =
          Outcomes(find_path_retry(Before, Current, hist.arg, max_retry))
       /\ Outcomes({Result}) \subseteq Outcomes(find_path_retry(Before, Current, hist.arg, 1))

\* find_path went through all its passes on a graph that had ineffective edges
C33_Witness ==
    /\ FindPathCalled
    /\ ~Result.raised
    /\ Result.attempts = max_retry
    /\ Result.path = <<>>
    /\ Cardinality({i \in DOMAIN Before.aig.edges :
           ActionOf(Before, Before.aig.edges[i][3]).exploration_flag = "ineffective"}) > 1
    /\ K.aig.edges # Before.aig.edges

\* the actions of Kn whose flag is unexplored
FlaggedUnexplored(Kn) ==
    {a.action_id : a \in {a \in Range(Kn.abstract_actions) : a.exploration_flag = "unexplored"}}

\* C34: no step of the exploration loop gives the flag unexplored to an action
\* that was explored or ineffective before it: the unexplored actions after the
\* step, by flag and in the index, are unexplored actions of before or actions
\* the step registered
C34_NeverBackToUnexplored ==
    [][/\ ActionIdsOf(K) \subseteq ActionIdsOf(K')
       /\ FlaggedUnexplored(K') \cap ActionIdsOf(K) \subseteq FlaggedUnexplored(K)
       /\ K'.unexplored_action_ids \cap ActionIdsOf(K) \subseteq K.unexplored_action_ids]_vars

\* explored, ineffective and unexplored actions are known after three steps
C34_Witness ==
    /\ steps_executed >= 3
    /\ \E a, b, c \in Range(K.abstract_actions) :
        /\ a.exploration_flag = "explored"
        /\ b.exploration_flag = "ineffective"
        /\ c.exploration_flag = "unexplored"
        /\ c.action_id > a.action_id
        /\ c.action_id > b.action_id

\* the element ids the action holds
NodeIdsOf(a) == {a.actual_elements[i].node_id : i \in DOMAIN a.actual_elements}

\* C35: no element id is held by two actions of the same action type
C35_ElementHeldByOneAction ==
    \A a, b \in Range(K.abstract_actions) :
        (a.action_id # b.action_id /\ a.action_type = b.action_type)
        => NodeIdsOf(a) \cap NodeIdsOf(b) = {}

\* C36: every edge (u, v, k) of the AIG is the edge of action k, whose source
\* state is u and whose target state is v, and no action id keys two edges
C36_EdgeIsItsActionsEdge ==
    /\ \A e \in Range(K.aig.edges) :
        /\ ActionOf(K, e[3]).source_abs_state = e[1]
        /\ ActionOf(K, e[3]).target_abs_state = e[2]
    /\ \A e, f \in Range(K.aig.edges) : e[3] = f[3] => e = f

\* no action of the list is flagged ineffective in Kn
NoneIneffective(Kn, path) ==
    \A i \in DOMAIN path : FlagOf(Kn, path[i]) # "ineffective"

\* C37: the list find_path returns for the selected action, and the navigation
\* path find_path or path_to_state gives after a step, hold no action that is
\* flagged ineffective when the list is returned
C37_NoIneffectiveOnRoute ==
    [][/\ (hist'.op = "find_path" /\ pc = "select") => NoneIneffective(K', hist'.ret)
       /\ (hist'.op = "post" /\ pc = "post" /\ nav_steps' # nav_steps)
          => NoneIneffective(K', nav_steps')]_vars

\* C38: right after update_knowledge(K, None, None, S) has returned, match_state(K, S)
\* returns, whatever the oracle answers, the state to whose cluster S was
\* appended: a state, so that the orchestrator's assertion holds
C38_MatchReturnsUpdatedState ==
    hist.op = "update_knowledge"
    => /\ hist.ret \in DOMAIN K.abstract_states
       /\ K.abstract_states[hist.ret].concrete_states # <<>>
       /\ K.abstract_states[hist.ret].concrete_states[
              Len(K.abstract_states[hist.ret].concrete_states)] = hist.arg
       /\ \A answers \in Answers(K, EQUIV_CACHE, api_key, hist.arg) :
              match_state(K, EQUIV_CACHE, api_key, hist.arg, answers).st = hist.ret

\* the snapshot joined, on the oracle's word, a state that is not the first one,
\* after the oracle had denied a reference of an earlier state
C38_Witness ==
    /\ hist.op = "update_knowledge"
    /\ hist.ret > 1
    /\ signature(hist.arg) # K.abstract_states[hist.ret].repr_signature
    /\ \E key \in EQUIV_CACHE.no :
          /\ key[2] = _safe_sig(hist.arg)
          /\ key[1] = _safe_sig(K.abstract_states[1].concrete_states[1])

\* C39: no two abstract states have the same repr_signature and every abstract
\* state is a node of the AIG
C39_DistinctSignaturesAllNodes ==
    /\ \A i, j \in DOMAIN K.abstract_states :
          K.abstract_states[i].repr_signature = K.abstract_states[j].repr_signature
          => i = j
    /\ \A i \in DOMAIN K.abstract_states : K.abstract_states[i].state_id \in K.aig.nodes

\* two states are known and one of them is no end of an edge; a snapshot was
\* ingested twice
C39_Witness ==
    /\ Len(K.abstract_states) = 2
    /\ \E i \in DOMAIN K.abstract_states :
          /\ Len(K.abstract_states[i].concrete_states) > 1
          /\ \A e \in Range(K.aig.edges) : e[1] # i /\ e[2] # i
    /\ Len(K.raw_trace) = MaxCalls

\* C40: after a pass of the loop that executed the action the selector chose
\* and updated the knowledge, that action is not unexplored
C40_SelectedActionLeavesUnexplored ==
    hist.op = "explore" => FlagOf(K, hist.arg) # "unexplored"

====
